---- MODULE Spec2Model ----
(***************************************************************************)
(* License validation and lifecycle state machine of the license server    *)
(* (src/server.js): POST /api/licenses/check and the administrative        *)
(* mutators that act on the same licenses rows (ban, HWID-lock toggle,     *)
(* pause / unpause, extend, reset-hwid, custom messages).                  *)
(*                                                                         *)
(* Time is counted in whole seconds.  A JavaScript Date holds an integer   *)
(* number of milliseconds and Date.toISOString / new Date(iso) convert it  *)
(* to and from a fixed-width text without loss, and fixed-width ISO texts  *)
(* order as the instants they denote, so a stored DATETIME is modelled by  *)
(* the integer instant it denotes and SQL NULL by NoTime.                  *)
(*                                                                         *)
(* Every handler is one atomic action: requests are served one after the   *)
(* other (the sequential behaviours of the server).  SpecRace alone splits *)
(* the check into its lookup, its callback and its write.                  *)
(***************************************************************************)
EXTENDS Integers, Sequences, FiniteSets, TLC

\* ----------------------------------------------------------------- bounds
MaxNow == 3          \* the clock runs from 0 to MaxNow seconds
MaxUsageRows == 2    \* at most this many rows are appended to license_usage
MaxExpiresAt == 4    \* a license is extended only while expires_at is at most this
MaxDurationValue == 3   \* the owner's extend raises duration_value to at most this
MaxBatch == 2        \* a generate request creates at most this many licenses
MaxFormat == 3       \* a license key format has at most this many characters
MaxValue == 3        \* calculateExpirationDate is called with at most this duration

\* ------------------------------------------------------------- value sets
NoTime == -1         \* SQL NULL in a DATETIME column
NULL == "NULL"       \* SQL NULL in a TEXT column
ABSENT == "ABSENT"   \* request field not supplied (JavaScript undefined)

Keys == {"K1"}                       \* license_key of the stored licenses
Apps == {"A1"}                       \* app_id of the stored applications
Hwids == {ABSENT, " ", "H1", "H2"}   \* hwid of a request: undefined, blank, two machines
Versions == {ABSENT, "1.0.0", "2.0.0"}

\* The kinds of license POST /api/licenses/generate stores: unlimited, or a
\* duration of DurationValue DurationUnit.
DurationValue == 2
DurationUnit == "seconds"

VARIABLES now, apps, licenses, usage, last, pausedSince, messages, inflight,
          server, rotation, generation, call, pending

vars == <<now, apps, licenses, usage, last, pausedSince, messages, inflight,
          server, rotation, generation, call, pending>>

\* the variables of the process, of the app-id rotation, of the license
\* generation, of the helper functions and of the interleaved moderation
\* requests, which the handlers below leave alone
others == <<server, rotation, generation, call, pending>>

\* ------------------------------------------------------------ the process
\* server.js registers no 'uncaughtException' handler: an exception thrown
\* in a callback of the event loop ends the process.
Running == "running"
Crashed == "crashed"

\* ------------------------------------------------------- JavaScript values
\* !x for a string or undefined
Falsy(x) == x \in {ABSENT, NULL, ""}

\* String.prototype.trim on the strings of Hwids
Trim(s) == IF s = " " THEN "" ELSE s

\* users.email = 'admin@admin.com'
isAdminUser(userId) == userId = "admin"

UnitSeconds(durationUnit) ==
    CASE durationUnit = "seconds" -> 1
      [] durationUnit = "minutes" -> 60
      [] durationUnit = "hours" -> 3600
      [] durationUnit = "days" -> 86400
      [] OTHER -> 86400

\* The time zone of the process.  Date.prototype.setSeconds, setMinutes,
\* setHours and setDate take the fields of the local time of the instant,
\* change one, and convert the local time back to an instant.  In "UTC" local
\* time is the instant; in "Europe/Warsaw" the clocks are one hour ahead of
\* UTC and go forward by another hour at the instant ClockChange.
Zones == {"UTC", "Europe/Warsaw"}
ClockChange == 7200

UtcOffset(zone, t) ==
    IF zone = "UTC" THEN 0 ELSE IF t >= ClockChange THEN 7200 ELSE 3600

\* LocalTime(t) of ECMAScript
LocalTime(zone, t) == t + UtcOffset(zone, t)

\* UTC(t) of ECMAScript: a local time that the change skips is read with the
\* offset before the change
UTC(zone, local) ==
    IF zone = "UTC" THEN local
    ELSE IF local < ClockChange + 7200 THEN local - 3600 ELSE local - 7200

\* calculateExpirationDate in a process of time zone zone, with the clock
\* reading as a parameter
calculateExpirationDateIn(zone, durationValue, durationUnit, isUnlimited, t) ==
    IF isUnlimited THEN NoTime
    ELSE UTC(zone, LocalTime(zone, t) + durationValue * UnitSeconds(durationUnit))

\* calculateExpirationDate of a process that runs in UTC, as the handlers of
\* the specifications below are checked
calculateExpirationDate(durationValue, durationUnit, isUnlimited, t) ==
    calculateExpirationDateIn("UTC", durationValue, durationUnit, isUnlimited, t)

\* ------------------------------------------------------------------- rows
\* A row of the licenses table as POST /api/licenses/generate inserts it:
\* expires_at NULL, the moderation flags at their column defaults.
\* is_active is written by no handler of server.js; a row soft-disabled in
\* the store itself has is_active = 0.
NewLicense(app_id, is_unlimited, is_active, created_by) ==
    [app_id |-> app_id,
     duration_value |-> IF is_unlimited = 1 THEN 0 ELSE DurationValue,
     duration_unit |-> IF is_unlimited = 1 THEN NULL ELSE DurationUnit,
     is_unlimited |-> is_unlimited,
     expires_at |-> NoTime,
     is_active |-> is_active,
     locked_hwid |-> NULL,
     is_banned |-> 0,
     is_paused |-> 0,
     paused_at |-> NoTime,
     paused_expires_at |-> NoTime,
     created_by |-> created_by]

\* license_usage has no UNIQUE constraint on license_key, so INSERT OR
\* REPLACE appends a row.  rows counts the rows of a key, hwid / last_check
\* are those of the newest row.
NoUsage == [rows |-> 0, hwid |-> NULL, last_check |-> NoTime]

RecordUsage(u, hwid, t) ==
    [rows |-> u.rows + 1, hwid |-> IF Falsy(hwid) THEN NULL ELSE hwid, last_check |-> t]

\* -------------------------------------------------------- custom messages
\* message_key values the check handler looks up
MessageKeys ==
    {"database-error", "invalid-license", "version-mismatch", "license-banned",
     "license-paused", "license-inactive", "hwid-required", "hwid-mismatch",
     "license-expired"}

\* custom_messages rows of app_id 'global': messages[u][k] is message_value
\* of the row of user u and key k, NULL when there is no row.  messages[NULL]
\* are the rows whose user_id IS NULL, which no handler writes.
MessageUsers == {"u1", NULL}

NoMessages == [u \in MessageUsers |-> [k \in MessageKeys |-> NULL]]

getCustomMessageForUser(userId, key, defaultMessage) ==
    LET row == IF userId # NULL /\ userId \in MessageUsers THEN messages[userId][key] ELSE NULL
        fallbackRow == messages[NULL][key]
    IN  IF Falsy(row)
        THEN IF Falsy(fallbackRow) THEN defaultMessage ELSE fallbackRow
        ELSE row

\* the default text of each reason
DefaultMessage(code) ==
    CASE code = "invalid-license" -> "Invalid license key or application ID"
      [] code = "version-mismatch" -> "Version mismatch"
      [] code = "license-banned" -> "License has been banned"
      [] code = "license-paused" -> "License is paused"
      [] code = "license-inactive" -> "License is inactive"
      [] code = "hwid-required" ->
            "HWID is required to activate license. Time starts counting from activation moment."
      [] code = "hwid-mismatch" -> "License is locked to different hardware"
      [] code = "license-expired" -> "License has expired"
      [] OTHER -> "Database error"

\* ------------------------------------------------ POST /api/licenses/check
\* if (url && url.trim()) setImmediate(() => sendDiscordWebhook(...))
Notify(webhook_url, success) ==
    IF ~Falsy(webhook_url) /\ ~Falsy(Trim(webhook_url))
    THEN IF success THEN "success" ELSE "failure"
    ELSE "none"

\* the answer of a handler together with the row it leaves behind
Reply(status, success, code, license, upsert, hook) ==
    [status |-> status, success |-> success, code |-> code,
     license |-> license, upsert |-> upsert, hook |-> hook]

\* hwidLockEnabled as the handler derives it from applications.hwid_lock_enabled
HwidLockEnabled(hwidLockValue) == hwidLockValue = 1

\* the JOIN of the lookup: license_key, app_id and is_active = 1 all match
LicenseFound(req) ==
    /\ req.license_key \in Keys
    /\ req.app_id \in Apps
    /\ licenses[req.license_key].app_id = req.app_id
    /\ licenses[req.license_key].is_active = 1

\* if (license.is_banned === 1)
IsBannedAboveOne(license) == license.is_banned > 1

IsBanned(license) == license.is_banned = 1

\* first activation that stores expires_at but no locked_hwid
CheckFirstActivationUnbound(req, license, app, t) ==
    LET hwidLockEnabled == HwidLockEnabled(app.hwid_lock_enabled)
        hwid == req.hwid
        expiresAt == calculateExpirationDate(license.duration_value, license.duration_unit, FALSE, t)
    IN  IF hwidLockEnabled /\ (Falsy(hwid) \/ Trim(hwid) = "")
        THEN Reply(200, FALSE, "hwid-required", license, FALSE, Notify(app.webhook_url, FALSE))
        ELSE Reply(200, TRUE, "ok", [license EXCEPT !.expires_at = expiresAt, !.locked_hwid = NULL],
                   TRUE, Notify(app.webhook_url, TRUE))

\* first activation that tests !hwid only, without hwid.trim() === ''
CheckFirstActivationUntrimmed(req, license, app, t) ==
    LET hwidLockEnabled == HwidLockEnabled(app.hwid_lock_enabled)
        hwid == req.hwid
        expiresAt == calculateExpirationDate(license.duration_value, license.duration_unit, FALSE, t)
    IN  IF hwidLockEnabled /\ Falsy(hwid)
        THEN Reply(200, FALSE, "hwid-required", license, FALSE, Notify(app.webhook_url, FALSE))
        ELSE Reply(200, TRUE, "ok",
                   [license EXCEPT !.expires_at = expiresAt,
                                   !.locked_hwid = IF hwidLockEnabled /\ ~Falsy(hwid) THEN hwid ELSE NULL],
                   TRUE, Notify(app.webhook_url, TRUE))

\* step 6/7 for a duration license that was never activated
CheckFirstActivation(req, license, app, t) ==
    LET hwidLockEnabled == HwidLockEnabled(app.hwid_lock_enabled)
        hwid == req.hwid
        expiresAt == calculateExpirationDate(license.duration_value, license.duration_unit, FALSE, t)
    IN  IF hwidLockEnabled /\ (Falsy(hwid) \/ Trim(hwid) = "")
        THEN Reply(200, FALSE, "hwid-required", license, FALSE, Notify(app.webhook_url, FALSE))
        ELSE Reply(200, TRUE, "ok",
                   [license EXCEPT !.expires_at = expiresAt,
                                   !.locked_hwid = IF hwidLockEnabled /\ ~Falsy(hwid) THEN hwid ELSE NULL],
                   TRUE, Notify(app.webhook_url, TRUE))

\* activated branch that compares the hwid only when the request carries one
CheckActivatedIfSupplied(req, license, app, t) ==
    LET hwidLockEnabled == HwidLockEnabled(app.hwid_lock_enabled)
        hwid == req.hwid
        bound == IF hwidLockEnabled
                 THEN IF Falsy(license.locked_hwid) /\ ~Falsy(hwid)
                      THEN [license EXCEPT !.locked_hwid = hwid]
                      ELSE license
                 ELSE [license EXCEPT !.locked_hwid = NULL]
    IN  IF hwidLockEnabled /\ ~Falsy(license.locked_hwid) /\ ~Falsy(hwid) /\ license.locked_hwid # hwid
        THEN Reply(200, FALSE, "hwid-mismatch", license, FALSE, Notify(app.webhook_url, FALSE))
        ELSE IF t > license.expires_at
        THEN Reply(200, FALSE, "license-expired", bound, FALSE, Notify(app.webhook_url, FALSE))
        ELSE Reply(200, TRUE, "ok", bound, TRUE, Notify(app.webhook_url, TRUE))

\* activated branch that keeps locked_hwid when the lock is disabled
CheckActivatedKeepLock(req, license, app, t) ==
    LET hwidLockEnabled == HwidLockEnabled(app.hwid_lock_enabled)
        hwid == req.hwid
        bound == IF hwidLockEnabled /\ Falsy(license.locked_hwid) /\ ~Falsy(hwid)
                 THEN [license EXCEPT !.locked_hwid = hwid]
                 ELSE license
    IN  IF hwidLockEnabled /\ ~Falsy(license.locked_hwid) /\ license.locked_hwid # hwid
        THEN Reply(200, FALSE, "hwid-mismatch", license, FALSE, Notify(app.webhook_url, FALSE))
        ELSE IF t > license.expires_at
        THEN Reply(200, FALSE, "license-expired", bound, FALSE, Notify(app.webhook_url, FALSE))
        ELSE Reply(200, TRUE, "ok", bound, TRUE, Notify(app.webhook_url, TRUE))

\* activated branch that binds no hwid to a license that is already activated
CheckActivatedNoLateBind(req, license, app, t) ==
    LET hwidLockEnabled == HwidLockEnabled(app.hwid_lock_enabled)
        hwid == req.hwid
        bound == IF hwidLockEnabled THEN license ELSE [license EXCEPT !.locked_hwid = NULL]
    IN  IF hwidLockEnabled /\ ~Falsy(license.locked_hwid) /\ license.locked_hwid # hwid
        THEN Reply(200, FALSE, "hwid-mismatch", license, FALSE, Notify(app.webhook_url, FALSE))
        ELSE IF t > license.expires_at
        THEN Reply(200, FALSE, "license-expired", bound, FALSE, Notify(app.webhook_url, FALSE))
        ELSE Reply(200, TRUE, "ok", bound, TRUE, Notify(app.webhook_url, TRUE))

\* step 6/7 for a license whose expires_at is set
CheckActivated(req, license, app, t) ==
    LET hwidLockEnabled == HwidLockEnabled(app.hwid_lock_enabled)
        hwid == req.hwid
        bound == IF hwidLockEnabled
                 THEN IF Falsy(license.locked_hwid) /\ ~Falsy(hwid)
                      THEN [license EXCEPT !.locked_hwid = hwid]
                      ELSE license
                 ELSE [license EXCEPT !.locked_hwid = NULL]
    IN  IF hwidLockEnabled /\ ~Falsy(license.locked_hwid) /\ license.locked_hwid # hwid
        THEN Reply(200, FALSE, "hwid-mismatch", license, FALSE, Notify(app.webhook_url, FALSE))
        ELSE IF t > license.expires_at
        THEN Reply(200, FALSE, "license-expired", bound, FALSE, Notify(app.webhook_url, FALSE))
        ELSE Reply(200, TRUE, "ok", bound, TRUE, Notify(app.webhook_url, TRUE))

\* step 6 for an unlimited license: binds or clears, never compares
CheckUnlimited(req, license, app, t) ==
    LET hwidLockEnabled == HwidLockEnabled(app.hwid_lock_enabled)
        hwid == req.hwid
        bound == IF hwidLockEnabled
                 THEN IF Falsy(license.locked_hwid) /\ ~Falsy(hwid)
                      THEN [license EXCEPT !.locked_hwid = hwid]
                      ELSE license
                 ELSE [license EXCEPT !.locked_hwid = NULL]
    IN  Reply(200, TRUE, "ok", bound, TRUE, Notify(app.webhook_url, TRUE))

\* the handler after its lookup found the row
CheckFound(req, license, app, t) ==
    IF ~Falsy(req.app_version) /\ ~Falsy(app.version) /\ app.version # req.app_version
    THEN Reply(200, FALSE, "version-mismatch", license, FALSE, Notify(app.webhook_url, FALSE))
    ELSE IF IsBanned(license)
    THEN Reply(200, FALSE, "license-banned", license, FALSE, Notify(app.webhook_url, FALSE))
    ELSE IF license.is_paused = 1
    THEN Reply(200, FALSE, "license-paused", license, FALSE, Notify(app.webhook_url, FALSE))
    ELSE IF license.is_active = 0
    THEN Reply(200, FALSE, "license-inactive", license, FALSE, Notify(app.webhook_url, FALSE))
    ELSE IF license.is_unlimited = 0 /\ license.expires_at = NoTime
            /\ license.duration_value # 0 /\ license.duration_unit # NULL
    THEN CheckFirstActivation(req, license, app, t)
    ELSE IF license.expires_at # NoTime
    THEN CheckActivated(req, license, app, t)
    ELSE IF license.is_unlimited = 1
    THEN CheckUnlimited(req, license, app, t)
    ELSE Reply(200, FALSE, "configuration-error", license, FALSE, "none")

\* Math.ceil(a / b) of whole numbers, b > 0
Ceil(a, b) == IF a >= 0 THEN (a + b - 1) \div b ELSE 0 - ((0 - a) \div b)

\* timeRemaining: no number for null, else the number of days.  A day is
\* 1000 * 60 * 60 * 24 milliseconds.
DaysRemainingFloor(license, expiresAt, t) ==
    IF license.is_unlimited = 0 /\ expiresAt # NoTime
    THEN {(expiresAt - t) \div 86400}
    ELSE {}

DaysRemaining(license, expiresAt, t) ==
    IF license.is_unlimited = 0 /\ expiresAt # NoTime
    THEN {Ceil(expiresAt - t, 86400)}
    ELSE {}

\* responseData of an accepted check: expiresAt is the expiry the first
\* activation computed or the stored one, null on the unlimited branch, and
\* isActivated was set on each of the three branches
ResponseData(req, license, app, t) ==
    LET expiresAt == CheckFound(req, license, app, t).license.expires_at
    IN  [success |-> TRUE,
         expires_at |-> expiresAt,
         is_unlimited |-> license.is_unlimited = 1,
         is_activated |-> TRUE,
         days_remaining |-> DaysRemaining(license, expiresAt, t)]

\* handler that requires license_key only
CheckLicenseKeyOnly(req, t) ==
    IF Falsy(req.license_key)
    THEN Reply(400, FALSE, "required-fields", NULL, FALSE, "none")
    ELSE IF ~LicenseFound(req)
    THEN Reply(200, FALSE, "invalid-license", NULL, FALSE,
               IF req.app_id \in Apps THEN Notify(apps[req.app_id].webhook_url, FALSE) ELSE "none")
    ELSE CheckFound(req, licenses[req.license_key], apps[req.app_id], t)

\* the whole handler: required fields, lookup, policy
CheckLicense(req, t) ==
    IF Falsy(req.app_id) \/ Falsy(req.license_key)
    THEN Reply(400, FALSE, "required-fields", NULL, FALSE, "none")
    ELSE IF ~LicenseFound(req)
    THEN Reply(200, FALSE, "invalid-license", NULL, FALSE,
               IF req.app_id \in Apps THEN Notify(apps[req.app_id].webhook_url, FALSE) ELSE "none")
    ELSE CheckFound(req, licenses[req.license_key], apps[req.app_id], t)

\* Requests of the client application.  hwid and app_version are read only
\* after the lookup has found the row, so they vary on the requests that
\* name a stored license; "A0" is no application and "K0" no license.
CheckRequests ==
    [user : {ABSENT}, perm : {FALSE}, app_id : Apps, license_key : Keys,
     hwid : Hwids, app_version : Versions]
    \cup
    { [user |-> ABSENT, perm |-> FALSE, app_id |-> r[1], license_key |-> r[2],
       hwid |-> "H1", app_version |-> ABSENT] :
      r \in { <<ABSENT, "K1">>, <<"A1", ABSENT>>, <<"A0", "K1">>, <<"A1", "K0">> } }

\* the reason text of the response: fixed texts for the required-fields and
\* configuration-error answers, none on success, otherwise the custom message
\* of ownerUserId (the owner of the application on a miss, the owner of the
\* license or else of the application once the row is found)
CheckReason(req, code) ==
    CASE code = "required-fields" -> "app_id and license_key are required"
      [] code = "configuration-error" -> "License configuration error"
      [] code = "ok" -> NULL
      [] code = "database-error" -> getCustomMessageForUser(NULL, code, DefaultMessage(code))
      [] code = "invalid-license" ->
            getCustomMessageForUser(IF req.app_id \in Apps THEN apps[req.app_id].created_by ELSE NULL,
                                    code, DefaultMessage(code))
      [] OTHER ->
            getCustomMessageForUser(IF ~Falsy(licenses[req.license_key].created_by)
                                    THEN licenses[req.license_key].created_by
                                    ELSE apps[req.app_id].created_by,
                                    code, DefaultMessage(code))

Done(op, req, r) ==
    [op |-> op, req |-> req, pre |-> licenses, preApps |-> apps,
     status |-> r.status, success |-> r.success, code |-> r.code, hook |-> r.hook,
     reason |-> CheckReason(req, r.code), arg |-> 0]

\* check that records the usage of every request that names a stored license
CheckRecordsRejected(req) ==
    LET r == CheckLicense(req, now)
        key == req.license_key
    IN  /\ server = Running
        /\ key \in Keys => usage[key].rows < MaxUsageRows
        /\ licenses' = IF r.code \in {"required-fields", "invalid-license"}
                       THEN licenses
                       ELSE [licenses EXCEPT ![key] = r.license]
        /\ usage' = IF key \in Keys
                    THEN [usage EXCEPT ![key] = RecordUsage(usage[key], req.hwid, now)]
                    ELSE usage
        /\ last' = Done("check", req, r)
        /\ UNCHANGED <<now, apps, pausedSince, messages, inflight, others>>

Check(req) ==
    LET r == CheckLicense(req, now)
        key == req.license_key
    IN  /\ server = Running
        /\ r.upsert => usage[key].rows < MaxUsageRows
        /\ licenses' = IF r.code \in {"required-fields", "invalid-license"}
                       THEN licenses
                       ELSE [licenses EXCEPT ![key] = r.license]
        /\ usage' = IF r.upsert
                    THEN [usage EXCEPT ![key] = RecordUsage(usage[key], req.hwid, now)]
                    ELSE usage
        /\ last' = Done("check", req, r)
        /\ UNCHANGED <<now, apps, pausedSince, messages, inflight, others>>

\* ---------------------------------------------------- sessions and access
\* A session is a logged-in user together with the permission the handler
\* asks getUserPermissions for; buildAdminPermissions grants the admin all.
Sessions ==
    { [user |-> "admin", perm |-> TRUE],
      [user |-> "u1", perm |-> TRUE],
      [user |-> "u1", perm |-> FALSE],
      [user |-> "u2", perm |-> TRUE] }

\* rows of user_app_access
AppAccess == { <<"u1", "A1">> }

userHasAppAccess(userId, appId) ==
    isAdminUser(userId) \/ <<userId, appId>> \in AppAccess

\* Administrative requests: every session on the stored rows, and the admin
\* on a key and an application that do not exist.
KeyTargets ==
    [s : Sessions, id : Keys] \cup [s : {[user |-> "admin", perm |-> TRUE]}, id : {"K0"}]

AppTargets ==
    [s : Sessions, id : Apps] \cup [s : {[user |-> "admin", perm |-> TRUE]}, id : {"A0"}]

AdminRequest(s, app_id, license_key) ==
    [user |-> s.user, perm |-> s.perm, app_id |-> app_id, license_key |-> license_key,
     hwid |-> ABSENT, app_version |-> ABSENT]

\* answer of a mutator: HTTP status and the licenses table it leaves behind
Answer(status, table) == [status |-> status, table |-> table]

Finished(op, req, a) ==
    [op |-> op, req |-> req, pre |-> licenses, preApps |-> apps,
     status |-> a.status, success |-> a.status = 200, code |-> "none", hook |-> "none",
     reason |-> NULL, arg |-> 0]

\* ------------------------------------------------- POST /api/licenses/ban
BanLicense(s, license_key, ban) ==
    IF ~s.perm THEN Answer(403, licenses)
    ELSE IF license_key \in Keys /\ licenses[license_key].created_by = s.user
    THEN Answer(200, [licenses EXCEPT ![license_key].is_banned = IF ban THEN 1 ELSE 0])
    ELSE Answer(404, licenses)

Ban(s, license_key, ban) ==
    /\ licenses' = BanLicense(s, license_key, ban).table
    /\ last' = Finished(IF ban THEN "ban" ELSE "unban", AdminRequest(s, ABSENT, license_key),
                        BanLicense(s, license_key, ban))
    /\ UNCHANGED <<now, apps, usage, pausedSince, messages, inflight, others>>

\* ------------------------- POST /api/licenses/:licenseKey/ban  and  /unban
AdminSetBanned(s, licenseKey, is_banned) ==
    IF ~isAdminUser(s.user) THEN Answer(403, licenses)
    ELSE IF licenseKey \notin Keys THEN Answer(404, licenses)
    ELSE Answer(200, [licenses EXCEPT ![licenseKey].is_banned = is_banned])

AdminBan(s, licenseKey) ==
    /\ licenses' = AdminSetBanned(s, licenseKey, 1).table
    /\ last' = Finished("ban", AdminRequest(s, ABSENT, licenseKey), AdminSetBanned(s, licenseKey, 1))
    /\ UNCHANGED <<now, apps, usage, pausedSince, messages, inflight, others>>

AdminUnban(s, licenseKey) ==
    /\ licenses' = AdminSetBanned(s, licenseKey, 0).table
    /\ last' = Finished("unban", AdminRequest(s, ABSENT, licenseKey), AdminSetBanned(s, licenseKey, 0))
    /\ UNCHANGED <<now, apps, usage, pausedSince, messages, inflight, others>>

\* --------------------------- POST /api/applications/:app_id/update-hwid-lock
UpdateHwidLock(s, app_id, hwid_lock_enabled) ==
    LET status == IF ~s.perm THEN 403
                  ELSE IF ~userHasAppAccess(s.user, app_id) THEN 403
                  ELSE IF app_id \notin Apps THEN 404
                  ELSE 200
    IN  /\ apps' = IF status = 200
                   THEN [apps EXCEPT ![app_id].hwid_lock_enabled = IF hwid_lock_enabled THEN 1 ELSE 0]
                   ELSE apps
        /\ last' = Finished("update-hwid-lock", AdminRequest(s, app_id, ABSENT), Answer(status, licenses))
        /\ UNCHANGED <<now, licenses, usage, pausedSince, messages, inflight, others>>

\* ------------------------------------ POST /api/licenses/:licenseKey/pause
\* the row the handler's SELECT returns: any row for the admin, own rows otherwise
Visible(s, licenseKey) ==
    /\ licenseKey \in Keys
    /\ isAdminUser(s.user) \/ licenses[licenseKey].created_by = s.user

\* pause that sets the flag and leaves the two timestamps alone
PauseLicenseFlagOnly(s, licenseKey, t) ==
    IF ~isAdminUser(s.user) /\ ~s.perm THEN Answer(403, licenses)
    ELSE IF ~Visible(s, licenseKey) THEN Answer(404, licenses)
    ELSE LET license == licenses[licenseKey]
         IN  IF license.is_active # 1 THEN Answer(400, licenses)
             ELSE IF license.is_banned = 1 THEN Answer(400, licenses)
             ELSE IF license.is_unlimited # 1 /\ license.expires_at # NoTime
                     /\ license.expires_at <= t
             THEN Answer(400, licenses)
             ELSE Answer(200, [licenses EXCEPT ![licenseKey].is_paused = 1])

PauseLicense(s, licenseKey, t) ==
    IF ~isAdminUser(s.user) /\ ~s.perm THEN Answer(403, licenses)
    ELSE IF ~Visible(s, licenseKey) THEN Answer(404, licenses)
    ELSE LET license == licenses[licenseKey]
         IN  IF license.is_active # 1 THEN Answer(400, licenses)
             ELSE IF license.is_banned = 1 THEN Answer(400, licenses)
             ELSE IF license.is_unlimited # 1 /\ license.expires_at # NoTime
                     /\ license.expires_at <= t
             THEN Answer(400, licenses)
             ELSE Answer(200, [licenses EXCEPT ![licenseKey] =
                                  [license EXCEPT !.is_paused = 1,
                                                  !.paused_at = t,
                                                  !.paused_expires_at = license.expires_at]])

\* pausedSince remembers, for a paused license, the instant of the pause that
\* took it from running to paused and the expires_at it had then.
NotPaused == [at |-> NoTime, expires_at |-> NoTime]

NotePauses(table) ==
    [k \in Keys |->
        IF licenses[k].is_paused = 0 /\ table[k].is_paused = 1
        THEN [at |-> now, expires_at |-> licenses[k].expires_at]
        ELSE IF table[k].is_paused = 0 THEN NotPaused
        ELSE pausedSince[k]]

Pause(s, licenseKey) ==
    /\ licenses' = PauseLicense(s, licenseKey, now).table
    /\ pausedSince' = NotePauses(PauseLicense(s, licenseKey, now).table)
    /\ last' = Finished("pause", AdminRequest(s, ABSENT, licenseKey), PauseLicense(s, licenseKey, now))
    /\ UNCHANGED <<now, apps, usage, messages, inflight, others>>

\* ---------------------------------- POST /api/applications/:app_id/pause-all
PauseAllInApp(s, app_id, t) ==
    IF ~isAdminUser(s.user) /\ ~s.perm THEN Answer(403, licenses)
    ELSE Answer(200,
           [k \in Keys |->
              LET license == licenses[k]
              IN  IF /\ license.app_id = app_id
                     /\ license.is_active = 1
                     /\ license.is_banned = 0
                     /\ license.is_paused = 0
                     /\ \/ (license.expires_at # NoTime /\ license.expires_at > t)
                        \/ license.is_unlimited = 1
                  THEN [license EXCEPT !.is_paused = 1,
                                       !.paused_at = t,
                                       !.paused_expires_at = license.expires_at]
                  ELSE license])

PauseAllApp(s, app_id) ==
    /\ licenses' = PauseAllInApp(s, app_id, now).table
    /\ pausedSince' = NotePauses(PauseAllInApp(s, app_id, now).table)
    /\ last' = Finished("pause-all", AdminRequest(s, app_id, ABSENT), PauseAllInApp(s, app_id, now))
    /\ UNCHANGED <<now, apps, usage, messages, inflight, others>>

\* ---------------------------------- POST /api/licenses/:licenseKey/unpause
\* resume that restores the snapshot without the paused time
UnpauseNewExpiresAtSnapshot(license, t) ==
    IF license.paused_expires_at # NoTime
    THEN license.paused_expires_at
    ELSE IF license.expires_at # NoTime
    THEN license.expires_at
    ELSE NoTime

UnpauseNewExpiresAt(license, t) ==
    IF license.paused_expires_at # NoTime
    THEN LET pausedAt == IF license.paused_at # NoTime THEN license.paused_at ELSE t
             pausedDuration == t - pausedAt
         IN  license.paused_expires_at + pausedDuration
    ELSE IF license.expires_at # NoTime
    THEN license.expires_at
    ELSE NoTime

UnpauseLicense(s, licenseKey, t) ==
    IF ~isAdminUser(s.user) /\ ~s.perm THEN Answer(403, licenses)
    ELSE IF ~Visible(s, licenseKey) THEN Answer(404, licenses)
    ELSE LET license == licenses[licenseKey]
         IN  Answer(200, [licenses EXCEPT ![licenseKey] =
                            [license EXCEPT !.is_paused = 0,
                                            !.paused_at = NoTime,
                                            !.paused_expires_at = NoTime,
                                            !.expires_at = UnpauseNewExpiresAt(license, t)]])

Unpause(s, licenseKey) ==
    /\ licenses' = UnpauseLicense(s, licenseKey, now).table
    /\ pausedSince' = NotePauses(UnpauseLicense(s, licenseKey, now).table)
    /\ last' = Finished("unpause", AdminRequest(s, ABSENT, licenseKey), UnpauseLicense(s, licenseKey, now))
    /\ UNCHANGED <<now, apps, usage, messages, inflight, others>>

\* -------------------------------- POST /api/applications/:app_id/unpause-all
UnpauseAllAppNewExpiresAt(license, t) ==
    IF license.paused_expires_at # NoTime
    THEN LET pausedAt == IF license.paused_at # NoTime THEN license.paused_at ELSE t
             pausedDuration == t - pausedAt
         IN  license.paused_expires_at + pausedDuration
    ELSE IF license.expires_at # NoTime
    THEN license.expires_at
    ELSE NoTime

UnpauseAllInApp(s, app_id, t) ==
    IF ~isAdminUser(s.user) /\ ~s.perm THEN Answer(403, licenses)
    ELSE Answer(200,
           [k \in Keys |->
              LET license == licenses[k]
              IN  IF license.app_id = app_id /\ license.is_paused = 1
                  THEN [license EXCEPT !.is_paused = 0,
                                       !.paused_at = NoTime,
                                       !.paused_expires_at = NoTime,
                                       !.expires_at = UnpauseAllAppNewExpiresAt(license, t)]
                  ELSE license])

UnpauseAllApp(s, app_id) ==
    /\ licenses' = UnpauseAllInApp(s, app_id, now).table
    /\ pausedSince' = NotePauses(UnpauseAllInApp(s, app_id, now).table)
    /\ last' = Finished("unpause-all", AdminRequest(s, app_id, ABSENT), UnpauseAllInApp(s, app_id, now))
    /\ UNCHANGED <<now, apps, usage, messages, inflight, others>>

\* ------------------------------------------ POST /api/licenses/unpause-all
\* The route is registered from inside the handler of
\* /api/applications/:app_id/unpause-all, behind the /api fallback, so no
\* request reaches it; its computation of the resumed expiry is the one below.
UnpauseAllNewExpiresAt(license, t) ==
    IF license.paused_expires_at # NoTime
    THEN LET pausedAt == IF license.paused_at # NoTime THEN license.paused_at ELSE t
             pausedDuration == t - pausedAt
         IN  license.paused_expires_at + pausedDuration
    ELSE IF license.expires_at # NoTime
    THEN license.expires_at
    ELSE NoTime

\* --------------------------------------------- POST /api/licenses/extend
\* newExpiry.setDate(newExpiry.getDate() + parseInt(additional_days))
AddDays(t, days) == t + days * UnitSeconds("days")

\* owner's extend that extends an expired license from the clock
ExtendLicenseFromNow(s, license_key, additional_days, t) ==
    IF ~s.perm THEN Answer(403, licenses)
    ELSE IF Falsy(license_key) \/ additional_days = 0 THEN Answer(400, licenses)
    ELSE IF ~(license_key \in Keys /\ licenses[license_key].created_by = s.user)
    THEN Answer(404, licenses)
    ELSE LET license == licenses[license_key]
             activated == license.expires_at # NoTime
             currentExpiry == IF activated THEN license.expires_at
                              ELSE calculateExpirationDate(license.duration_value,
                                                           license.duration_unit, FALSE, t)
             baseDate == IF currentExpiry > t THEN currentExpiry ELSE t
             newExpiry == AddDays(baseDate, additional_days)
         IN  IF license.is_unlimited = 1 THEN Answer(400, licenses)
             ELSE IF ~activated /\ (license.duration_value = 0 \/ license.duration_unit = NULL)
             THEN Answer(400, licenses)
             ELSE Answer(200, [licenses EXCEPT ![license_key] =
                                  [license EXCEPT !.expires_at = newExpiry,
                                                  !.duration_value = @ + additional_days]])

\* the owner's extend: additional_days = 0 stands for a missing additional_days
ExtendLicense(s, license_key, additional_days, t) ==
    IF ~s.perm THEN Answer(403, licenses)
    ELSE IF Falsy(license_key) \/ additional_days = 0 THEN Answer(400, licenses)
    ELSE IF ~(license_key \in Keys /\ licenses[license_key].created_by = s.user)
    THEN Answer(404, licenses)
    ELSE LET license == licenses[license_key]
             activated == license.expires_at # NoTime
             currentExpiry == IF activated THEN license.expires_at
                              ELSE calculateExpirationDate(license.duration_value,
                                                           license.duration_unit, FALSE, t)
             baseDate == IF currentExpiry > t THEN currentExpiry ELSE t
             newExpiry == AddDays(baseDate, additional_days)
         IN  IF license.is_unlimited = 1 THEN Answer(400, licenses)
             ELSE IF ~activated /\ (license.duration_value = 0 \/ license.duration_unit = NULL)
             THEN Answer(400, licenses)
             ELSE IF currentExpiry <= t THEN Answer(400, licenses)
             ELSE Answer(200, [licenses EXCEPT ![license_key] =
                                  [license EXCEPT !.expires_at = newExpiry,
                                                  !.duration_value = @ + additional_days]])

\* a license is extended only while its expires_at is at most MaxExpiresAt,
\* and its duration_value is raised to at most MaxDurationValue
ExtendBounded(table) ==
    \A k \in Keys :
        table[k] # licenses[k] =>
            /\ licenses[k].expires_at <= MaxExpiresAt
            /\ table[k].duration_value <= MaxDurationValue

Extend(s, license_key, additional_days) ==
    /\ ExtendBounded(ExtendLicense(s, license_key, additional_days, now).table)
    /\ licenses' = ExtendLicense(s, license_key, additional_days, now).table
    /\ last' = [Finished("extend", AdminRequest(s, ABSENT, license_key),
                         ExtendLicense(s, license_key, additional_days, now))
                  EXCEPT !.arg = additional_days]
    /\ UNCHANGED <<now, apps, usage, pausedSince, messages, inflight, others>>

\* ------------------------------------ POST /api/licenses/:licenseKey/extend
\* extension that restarts the expiry from the clock
AdminExtendNewExpiresAtFromNow(license, duration_value, duration_unit, t) ==
    calculateExpirationDate(duration_value, duration_unit, FALSE, t)

\* duration_value = 0 stands for a missing duration_value
AdminExtendNewExpiresAt(license, duration_value, duration_unit, t) ==
    IF license.expires_at # NoTime
    THEN LET additionalTime == calculateExpirationDate(duration_value, duration_unit, FALSE, t)
         IN  license.expires_at + (additionalTime - t)
    ELSE calculateExpirationDate(duration_value, duration_unit, FALSE, t)

\* extend that does not look at the expiry of the license
AdminExtendLicenseAnyExpiry(s, licenseKey, duration_value, duration_unit, t) ==
    IF ~isAdminUser(s.user) /\ ~s.perm THEN Answer(403, licenses)
    ELSE IF duration_value = 0 \/ Falsy(duration_unit) THEN Answer(400, licenses)
    ELSE IF ~Visible(s, licenseKey) THEN Answer(404, licenses)
    ELSE LET license == licenses[licenseKey]
         IN  IF license.is_unlimited = 1 THEN Answer(400, licenses)
             ELSE Answer(200, [licenses EXCEPT ![licenseKey].expires_at =
                                  AdminExtendNewExpiresAt(license, duration_value, duration_unit, t)])

\* extend that does not look at is_unlimited
AdminExtendLicenseUnlimited(s, licenseKey, duration_value, duration_unit, t) ==
    IF ~isAdminUser(s.user) /\ ~s.perm THEN Answer(403, licenses)
    ELSE IF duration_value = 0 \/ Falsy(duration_unit) THEN Answer(400, licenses)
    ELSE IF ~Visible(s, licenseKey) THEN Answer(404, licenses)
    ELSE LET license == licenses[licenseKey]
         IN  IF license.expires_at # NoTime /\ license.expires_at <= t
             THEN Answer(400, licenses)
             ELSE Answer(200, [licenses EXCEPT ![licenseKey].expires_at =
                                  AdminExtendNewExpiresAt(license, duration_value, duration_unit, t)])

AdminExtendLicense(s, licenseKey, duration_value, duration_unit, t) ==
    IF ~isAdminUser(s.user) /\ ~s.perm THEN Answer(403, licenses)
    ELSE IF duration_value = 0 \/ Falsy(duration_unit) THEN Answer(400, licenses)
    ELSE IF ~Visible(s, licenseKey) THEN Answer(404, licenses)
    ELSE LET license == licenses[licenseKey]
         IN  IF license.is_unlimited = 1 THEN Answer(400, licenses)
             ELSE IF license.expires_at # NoTime /\ license.expires_at <= t
             THEN Answer(400, licenses)
             ELSE Answer(200, [licenses EXCEPT ![licenseKey].expires_at =
                                  AdminExtendNewExpiresAt(license, duration_value, duration_unit, t)])

AdminExtend(s, licenseKey, duration_value, duration_unit) ==
    /\ ExtendBounded(AdminExtendLicense(s, licenseKey, duration_value, duration_unit, now).table)
    /\ licenses' = AdminExtendLicense(s, licenseKey, duration_value, duration_unit, now).table
    /\ last' = [Finished("admin-extend", AdminRequest(s, ABSENT, licenseKey),
                         AdminExtendLicense(s, licenseKey, duration_value, duration_unit, now))
                  EXCEPT !.arg = duration_value]
    /\ UNCHANGED <<now, apps, usage, pausedSince, messages, inflight, others>>

\* ------------------------------------------- POST /api/licenses/extend-all
ExtendAllNewExpiresAt(license, duration_value, duration_unit, t) ==
    IF license.expires_at # NoTime
    THEN LET additionalTime == calculateExpirationDate(duration_value, duration_unit, FALSE, t)
         IN  license.expires_at + (additionalTime - t)
    ELSE calculateExpirationDate(duration_value, duration_unit, FALSE, t)

ExtendAllLicenses(s, duration_value, duration_unit, t) ==
    IF ~s.perm THEN Answer(403, licenses)
    ELSE IF duration_value = 0 \/ Falsy(duration_unit) THEN Answer(400, licenses)
    ELSE Answer(200,
           [k \in Keys |->
              LET license == licenses[k]
              IN  IF /\ license.is_active = 1
                     /\ license.is_banned = 0
                     /\ license.is_unlimited = 0
                     /\ (license.expires_at = NoTime \/ license.expires_at > t)
                     /\ license.created_by = s.user
                  THEN [license EXCEPT !.expires_at =
                           ExtendAllNewExpiresAt(license, duration_value, duration_unit, t)]
                  ELSE license])

ExtendAll(s, duration_value, duration_unit) ==
    /\ ExtendBounded(ExtendAllLicenses(s, duration_value, duration_unit, now).table)
    /\ licenses' = ExtendAllLicenses(s, duration_value, duration_unit, now).table
    /\ last' = [Finished("extend-all", AdminRequest(s, ABSENT, ABSENT),
                         ExtendAllLicenses(s, duration_value, duration_unit, now))
                  EXCEPT !.arg = duration_value]
    /\ UNCHANGED <<now, apps, usage, pausedSince, messages, inflight, others>>

\* -------------------------------- POST /api/applications/:app_id/extend-all
\* Like /api/licenses/unpause-all, this route is registered from inside the
\* handler of /api/applications/:app_id/unpause-all and no request reaches
\* it; the table its handler would leave behind is the one below.
ExtendAllInAppNewExpiresAt(license, duration_value, duration_unit, t) ==
    IF license.expires_at # NoTime
    THEN LET additionalTime == calculateExpirationDate(duration_value, duration_unit, FALSE, t)
         IN  license.expires_at + (additionalTime - t)
    ELSE calculateExpirationDate(duration_value, duration_unit, FALSE, t)

ExtendAllInApp(s, app_id, duration_value, duration_unit, t) ==
    IF ~s.perm THEN Answer(403, licenses)
    ELSE IF duration_value = 0 \/ Falsy(duration_unit) THEN Answer(400, licenses)
    ELSE Answer(200,
           [k \in Keys |->
              LET license == licenses[k]
              IN  IF /\ license.app_id = app_id
                     /\ license.is_active = 1
                     /\ license.is_banned = 0
                     /\ license.is_unlimited = 0
                     /\ (license.expires_at = NoTime \/ license.expires_at > t)
                  THEN [license EXCEPT !.expires_at =
                           ExtendAllInAppNewExpiresAt(license, duration_value, duration_unit, t)]
                  ELSE license])

\* ------------------------------------------ POST /api/licenses/reset-hwid
\* UPDATE licenses SET locked_hwid = NULL, then DELETE FROM license_usage
\* reset that empties the usage cache and leaves locked_hwid as it is
ResetHwidLicenseUsageOnly(s, license_key) ==
    IF ~s.perm THEN Answer(403, licenses)
    ELSE IF Falsy(license_key) THEN Answer(400, licenses)
    ELSE IF ~Visible(s, license_key) THEN Answer(404, licenses)
    ELSE Answer(200, licenses)

ResetHwidLicense(s, license_key) ==
    IF ~s.perm THEN Answer(403, licenses)
    ELSE IF Falsy(license_key) THEN Answer(400, licenses)
    ELSE IF ~Visible(s, license_key) THEN Answer(404, licenses)
    ELSE Answer(200, [licenses EXCEPT ![license_key].locked_hwid = NULL])

ResetHwid(s, license_key) ==
    /\ licenses' = ResetHwidLicense(s, license_key).table
    /\ usage' = IF ResetHwidLicense(s, license_key).status = 200
                THEN [usage EXCEPT ![license_key] = NoUsage]
                ELSE usage
    /\ last' = Finished("reset-hwid", AdminRequest(s, ABSENT, license_key),
                        ResetHwidLicense(s, license_key))
    /\ UNCHANGED <<now, apps, pausedSince, messages, inflight, others>>

\* --------------------------------- POST /api/licenses/:licenseKey/reset-hwid
AdminResetHwidLicense(s, licenseKey) ==
    IF ~isAdminUser(s.user) THEN Answer(403, licenses)
    ELSE IF licenseKey \notin Keys THEN Answer(404, licenses)
    ELSE Answer(200, [licenses EXCEPT ![licenseKey].locked_hwid = NULL])

AdminResetHwid(s, licenseKey) ==
    /\ licenses' = AdminResetHwidLicense(s, licenseKey).table
    /\ usage' = IF AdminResetHwidLicense(s, licenseKey).status = 200
                THEN [usage EXCEPT ![licenseKey] = NoUsage]
                ELSE usage
    /\ last' = Finished("reset-hwid", AdminRequest(s, ABSENT, licenseKey),
                        AdminResetHwidLicense(s, licenseKey))
    /\ UNCHANGED <<now, apps, pausedSince, messages, inflight, others>>

\* ------------------------------------------------------ POST /api/messages
\* INSERT OR REPLACE of the row (user_id, 'global', key) of the session's user
SaveMessage(s, key, value) ==
    /\ messages' = IF s.perm /\ key \in MessageKeys /\ s.user \in MessageUsers
                   THEN [messages EXCEPT ![s.user][key] = value]
                   ELSE messages
    /\ last' = Finished("messages", AdminRequest(s, ABSENT, ABSENT),
                        Answer(IF ~s.perm THEN 403 ELSE IF key \in MessageKeys THEN 200 ELSE 400,
                               licenses))
    /\ UNCHANGED <<now, apps, licenses, usage, pausedSince, inflight, others>>

\* ------------------------------------------------------------------ clock
\* last holds the request just answered and its answer; once time passes no
\* answer is current.
NoRequest ==
    [user |-> ABSENT, perm |-> FALSE, app_id |-> ABSENT, license_key |-> ABSENT,
     hwid |-> ABSENT, app_version |-> ABSENT]

Idle ==
    [op |-> "idle", req |-> NoRequest, pre |-> licenses, preApps |-> apps,
     status |-> 0, success |-> FALSE, code |-> "none", hook |-> "none", reason |-> NULL,
     arg |-> 0]

Tick ==
    /\ now < MaxNow
    /\ now' = now + 1
    /\ last' = Idle
    /\ UNCHANGED <<apps, licenses, usage, pausedSince, messages, inflight, others>>

\* ------------------------------------- POST /api/licenses/check, interleaved
\* The handler is three steps of the event loop and the database: the lookup
\* (db.get) reads the joined row; its callback reads the clock, decides on the
\* row it was given, issues its UPDATE with db.run without waiting for it and
\* answers; the UPDATE reaches the licenses table later.  Two client
\* applications each send one check.
Clients == {"c1", "c2"}

RaceRequests ==
    [user : {ABSENT}, perm : {FALSE}, app_id : Apps, license_key : Keys,
     hwid : {"H1", "H2"}, app_version : {ABSENT}]

\* the UPDATE licenses statement a check issues: the columns it sets and their values
NoUpdate == [columns |-> {}, expires_at |-> NoTime, locked_hwid |-> NULL]

CheckUpdate(req, row, app, t) ==
    LET r == CheckFound(req, row, app, t)
    IN  IF r.code \notin {"ok", "license-expired"} THEN NoUpdate
        ELSE IF row.is_unlimited = 0 /\ row.expires_at = NoTime
                /\ row.duration_value # 0 /\ row.duration_unit # NULL
        THEN [columns |-> {"expires_at", "locked_hwid"},
              expires_at |-> r.license.expires_at, locked_hwid |-> r.license.locked_hwid]
        ELSE IF r.license.locked_hwid # row.locked_hwid
        THEN [columns |-> {"locked_hwid"}, expires_at |-> NoTime, locked_hwid |-> r.license.locked_hwid]
        ELSE NoUpdate

\* an UPDATE that keeps an expires_at that is already stored
ApplyUpdateKeepExpiry(license, update) ==
    [license EXCEPT
        !.expires_at = IF "expires_at" \in update.columns /\ license.expires_at = NoTime
                       THEN update.expires_at ELSE license.expires_at,
        !.locked_hwid = IF "locked_hwid" \in update.columns
                        THEN update.locked_hwid ELSE license.locked_hwid]

\* UPDATE licenses SET <columns> WHERE license_key = ?  (one statement)
ApplyUpdate(license, update) ==
    [license EXCEPT
        !.expires_at = IF "expires_at" \in update.columns
                       THEN update.expires_at ELSE license.expires_at,
        !.locked_hwid = IF "locked_hwid" \in update.columns
                        THEN update.locked_hwid ELSE license.locked_hwid]

\* a client with no check under way
Waiting ==
    [pc |-> "idle", req |-> NoRequest,
     row |-> NewLicense(NULL, 0, 0, NULL),
     app |-> [version |-> NULL, hwid_lock_enabled |-> 0, webhook_url |-> NULL, created_by |-> NULL],
     update |-> NoUpdate, accepted |-> FALSE, landed |-> 0]

\* number of UPDATEs of the interleaved checks that have reached the table
Landed == Cardinality({p \in Clients : inflight[p].landed > 0})

\* db.get of the lookup returns the joined row
ClientLookup(p, req) ==
    /\ inflight[p].pc = "idle"
    /\ LicenseFound(req)
    /\ inflight' = [inflight EXCEPT ![p] =
                       [Waiting EXCEPT !.pc = "found", !.req = req,
                                       !.row = licenses[req.license_key],
                                       !.app = apps[req.app_id]]]
    /\ last' = Idle
    /\ UNCHANGED <<now, apps, licenses, usage, pausedSince, messages, others>>

\* the callback of the lookup decides, issues its writes and answers
ClientReply(p) ==
    LET c == inflight[p]
        r == CheckFound(c.req, c.row, c.app, now)
        key == c.req.license_key
    IN  /\ c.pc = "found"
        /\ r.upsert => usage[key].rows < MaxUsageRows
        /\ inflight' = [inflight EXCEPT ![p] =
                           [c EXCEPT !.pc = IF CheckUpdate(c.req, c.row, c.app, now).columns = {}
                                            THEN "done" ELSE "writing",
                                     !.update = CheckUpdate(c.req, c.row, c.app, now),
                                     !.accepted = r.success]]
        /\ usage' = IF r.upsert
                    THEN [usage EXCEPT ![key] = RecordUsage(usage[key], c.req.hwid, now)]
                    ELSE usage
        /\ last' = Idle
        /\ UNCHANGED <<now, apps, licenses, pausedSince, messages, others>>

\* the UPDATE reaches the table
ClientWrite(p) ==
    LET c == inflight[p]
        key == c.req.license_key
    IN  /\ c.pc = "writing"
        /\ licenses' = [licenses EXCEPT ![key] = ApplyUpdate(licenses[key], c.update)]
        /\ inflight' = [inflight EXCEPT ![p] = [c EXCEPT !.pc = "done", !.landed = Landed + 1]]
        /\ last' = Idle
        /\ UNCHANGED <<now, apps, usage, pausedSince, messages, others>>

\* ------------------------------------- unpause and extend, interleaved
\* The handlers of unpause and of the two extend routes read the license with
\* db.get, compute the new values from the row they were given in the
\* callback, and write them with an UPDATE that reaches the licenses table
\* later; statements of other requests run in between.  Two sessions each
\* send one such request.  read is the row the SELECT returned, row the row
\* with the values the callback computed.
Writers == {"w1", "w2"}

NoWrite ==
    [pc |-> "idle", op |-> "none", key |-> NULL, status |-> 0, arg |-> 0,
     read |-> NewLicense(NULL, 0, 0, NULL), row |-> NewLicense(NULL, 0, 0, NULL)]

NoPending == [w \in Writers |-> NoWrite]

\* the SELECT and its callback: the answer a of the handler on the row as it
\* is now; an accepted request has its UPDATE under way
Selected(w, op, key, arg, a) ==
    /\ pending[w].pc = "idle"
    /\ pending' = [pending EXCEPT ![w] =
                      IF a.status = 200
                      THEN [pc |-> "writing", op |-> op, key |-> key, status |-> 0, arg |-> arg,
                            read |-> licenses[key], row |-> a.table[key]]
                      ELSE [NoWrite EXCEPT !.pc = "done", !.op = op, !.key = key,
                                           !.status = a.status]]
    /\ last' = Idle
    /\ UNCHANGED <<now, apps, licenses, usage, pausedSince, messages, inflight,
                   server, rotation, generation, call>>

UnpauseSelect(w, s, licenseKey) ==
    Selected(w, "unpause", licenseKey, 0, UnpauseLicense(s, licenseKey, now))

AdminExtendSelect(w, s, licenseKey, duration_value, duration_unit) ==
    /\ ExtendBounded(AdminExtendLicense(s, licenseKey, duration_value, duration_unit, now).table)
    /\ Selected(w, "admin-extend", licenseKey, duration_value,
                AdminExtendLicense(s, licenseKey, duration_value, duration_unit, now))

ExtendSelect(w, s, license_key, additional_days) ==
    /\ ExtendBounded(ExtendLicense(s, license_key, additional_days, now).table)
    /\ Selected(w, "extend", license_key, additional_days,
                ExtendLicense(s, license_key, additional_days, now))

\* the UPDATE statements: unpause sets is_paused, paused_at, paused_expires_at
\* and expires_at; the admin's extend sets expires_at; the owner's extend sets
\* expires_at and adds additional_days to duration_value
Updated(license, c) ==
    IF c.op = "unpause"
    THEN [license EXCEPT !.is_paused = 0, !.paused_at = NoTime, !.paused_expires_at = NoTime,
                         !.expires_at = c.row.expires_at]
    ELSE IF c.op = "extend"
    THEN [license EXCEPT !.expires_at = c.row.expires_at, !.duration_value = @ + c.arg]
    ELSE [license EXCEPT !.expires_at = c.row.expires_at]

\* the UPDATE reaches the table, and the handler answers
UpdateLands(w) ==
    LET c == pending[w]
        table == [licenses EXCEPT ![c.key] = Updated(licenses[c.key], c)]
    IN  /\ c.pc = "writing"
        /\ table[c.key].duration_value <= MaxDurationValue
        /\ licenses' = table
        /\ pausedSince' = NotePauses(table)
        /\ pending' = [pending EXCEPT ![w] = [c EXCEPT !.pc = "done", !.status = 200]]
        /\ last' = Idle
        /\ UNCHANGED <<now, apps, usage, messages, inflight, server, rotation, generation, call>>

\* ------------------------- POST /api/applications/:app_id/update-webhook
\* webhook_url of the request body: none, empty, blank, a URL, and a text
\* that is no URL.  The handler stores webhook_url || null as it comes.
WebhookUrls == {ABSENT, "", " ", "https://hook", "hook"}

UpdateWebhook(s, app_id, webhook_url) ==
    LET status == IF ~s.perm THEN 403
                  ELSE IF ~userHasAppAccess(s.user, app_id) THEN 403
                  ELSE IF app_id \notin Apps THEN 404
                  ELSE 200
    IN  /\ server = Running
        /\ apps' = IF status = 200
                   THEN [apps EXCEPT ![app_id].webhook_url =
                                        IF Falsy(webhook_url) THEN NULL ELSE webhook_url]
                   ELSE apps
        /\ last' = Finished("update-webhook", AdminRequest(s, app_id, ABSENT), Answer(status, licenses))
        /\ UNCHANGED <<now, licenses, usage, pausedSince, messages, inflight, others>>

\* ------------------------------------------------------ sendDiscordWebhook
\* new URL(webhookUrl) returns for a URL and throws a TypeError otherwise
ValidUrl(webhookUrl) == webhookUrl = "https://hook"

\* The callback that the check handed to setImmediate runs after the response
\* was sent.  It parses the URL outside any try block, then posts the embed:
\* the request is delivered, or its 'error' event or a status outside 2xx is
\* written to the console.
SendDiscordWebhook ==
    LET webhookUrl == last.preApps[last.req.app_id].webhook_url
    IN  /\ server = Running
        /\ last.op = "check"
        /\ last.hook \in {"success", "failure"}
        /\ IF ValidUrl(webhookUrl)
           THEN /\ \E outcome \in {"delivered", "logged"} :
                     last' = [last EXCEPT !.op = "dispatch", !.hook = outcome]
                /\ server' = server
           ELSE /\ last' = [last EXCEPT !.op = "dispatch", !.hook = "thrown"]
                /\ server' = Crashed
        /\ UNCHANGED <<now, apps, licenses, usage, pausedSince, messages, inflight,
                       rotation, generation, call, pending>>

\* ------------------------- POST /api/licenses/check, the lookup calls back
\* with err
StorageErrorText == "SQLITE_IOERR: disk I/O error"

\* handler that answers with err.message, as the administrative handlers do
CheckDatabaseErrorRaw(req) ==
    /\ server = Running
    /\ ~(Falsy(req.app_id) \/ Falsy(req.license_key))
    /\ last' = [Done("check", req, Reply(500, FALSE, "database-error", NULL, FALSE, "none"))
                 EXCEPT !.reason = StorageErrorText]
    /\ UNCHANGED <<now, apps, licenses, usage, pausedSince, messages, inflight, others>>

CheckDatabaseError(req) ==
    /\ server = Running
    /\ ~(Falsy(req.app_id) \/ Falsy(req.license_key))
    /\ last' = Done("check", req, Reply(500, FALSE, "database-error", NULL, FALSE, "none"))
    /\ UNCHANGED <<now, apps, licenses, usage, pausedSince, messages, inflight, others>>

\* ------------------------ POST /api/applications/:app_id/refresh-app-id
\* One application, "A1", with its licenses and its user_app_access rows;
\* each of the three tables is represented by the app_id its rows carry.
\* Every handler runs its statements through the one object db.  With sqlite3
\* and with a LibSQL file, db is one connection (shared): a transaction
\* belongs to the connection and not to a request, and transaction holds the
\* tables as they were at BEGIN while one is open.  With a remote LibSQL
\* database the adapter hands each statement to client.execute on its own, so
\* no transaction outlives the statement that began it.  Two sessions that
\* hold the permission and the access refresh the application; each callback
\* of a handler is one step.
Refreshers == {"r1", "r2"}

\* crypto.randomBytes(8).toString('hex')
NewAppId(r) == IF r = "r1" THEN "N1" ELSE "N2"

NoTransaction ==
    [open |-> FALSE, applications |-> NULL, licenses |-> NULL, user_app_access |-> NULL]

NoRefresh == [pc |-> "idle", err |-> FALSE, status |-> 0]

NoRotation ==
    [shared |-> TRUE, applications |-> "A1", licenses |-> "A1", user_app_access |-> "A1",
     transaction |-> NoTransaction, requests |-> [r \in Refreshers |-> NoRefresh]]

\* db.run('BEGIN TRANSACTION'): fails inside a transaction, and the call
\* passes no callback, so the failure goes unnoticed
Begin(rot) ==
    IF ~rot.shared \/ rot.transaction.open THEN rot
    ELSE [rot EXCEPT !.transaction =
                        [open |-> TRUE, applications |-> rot.applications,
                         licenses |-> rot.licenses, user_app_access |-> rot.user_app_access]]

\* db.run('ROLLBACK'): undoes every statement the connection ran since BEGIN;
\* fails unnoticed when no transaction is open
Rollback(rot) ==
    IF rot.transaction.open
    THEN [rot EXCEPT !.applications = rot.transaction.applications,
                     !.licenses = rot.transaction.licenses,
                     !.user_app_access = rot.transaction.user_app_access,
                     !.transaction = NoTransaction]
    ELSE rot

\* UPDATE <table> SET app_id = newAppId WHERE app_id = app_id
UpdateAppId(rot, table, newAppId, app_id) ==
    IF rot[table] = app_id THEN [rot EXCEPT ![table] = newAppId] ELSE rot

\* a request moves to pc, having run its statements on the connection
Refreshing(rot, r, pc, err) ==
    [rot EXCEPT !.requests[r] = [pc |-> pc, err |-> err, status |-> 0]]

RefreshAnswered(rot, r, status) ==
    [rot EXCEPT !.requests[r] = [pc |-> "answered", err |-> FALSE, status |-> status]]

RefreshUnchanged ==
    UNCHANGED <<now, apps, licenses, usage, last, pausedSince, messages, inflight,
                server, generation, call, pending>>

\* SELECT * FROM applications WHERE app_id = ?
RefreshLookup(r) ==
    /\ rotation.requests[r].pc = "idle"
    /\ rotation' = IF rotation.applications = "A1"
                   THEN Refreshing(rotation, r, "found", FALSE)
                   ELSE RefreshAnswered(rotation, r, 404)
    /\ RefreshUnchanged

\* db.serialize: BEGIN TRANSACTION, then UPDATE applications, which fails
\* when the storage does (ok = FALSE)
RefreshApplication(r, ok) ==
    /\ rotation.requests[r].pc = "found"
    /\ rotation' = Refreshing(IF ok THEN UpdateAppId(Begin(rotation), "applications", NewAppId(r), "A1")
                                    ELSE Begin(rotation),
                              r, "applications", ~ok)
    /\ RefreshUnchanged

\* callback of UPDATE applications: ROLLBACK and 500, or UPDATE licenses
RefreshLicenses(r, ok) ==
    /\ rotation.requests[r].pc = "applications"
    /\ rotation' = IF rotation.requests[r].err
                   THEN RefreshAnswered(Rollback(rotation), r, 500)
                   ELSE Refreshing(IF ok THEN UpdateAppId(rotation, "licenses", NewAppId(r), "A1")
                                         ELSE rotation,
                                   r, "licenses", ~ok)
    /\ RefreshUnchanged

\* callback of UPDATE licenses: ROLLBACK and 500, or UPDATE user_app_access
RefreshAccess(r, ok) ==
    /\ rotation.requests[r].pc = "licenses"
    /\ rotation' = IF rotation.requests[r].err
                   THEN RefreshAnswered(Rollback(rotation), r, 500)
                   ELSE Refreshing(IF ok THEN UpdateAppId(rotation, "user_app_access", NewAppId(r), "A1")
                                         ELSE rotation,
                                   r, "user_app_access", ~ok)
    /\ RefreshUnchanged

\* callback of UPDATE user_app_access: ROLLBACK and 500, or COMMIT, which
\* fails when no transaction is open or when the storage does
RefreshCommit(r, ok) ==
    /\ rotation.requests[r].pc = "user_app_access"
    /\ rotation' = IF rotation.requests[r].err
                   THEN RefreshAnswered(Rollback(rotation), r, 500)
                   ELSE IF ok /\ rotation.transaction.open
                   THEN Refreshing([rotation EXCEPT !.transaction = NoTransaction], r, "commit", FALSE)
                   ELSE Refreshing(rotation, r, "commit", TRUE)
    /\ RefreshUnchanged

\* callback of COMMIT: 500 with err.message, or success and new_app_id
RefreshAnswer(r) ==
    /\ rotation.requests[r].pc = "commit"
    /\ rotation' = RefreshAnswered(rotation, r, IF rotation.requests[r].err THEN 500 ELSE 200)
    /\ RefreshUnchanged

\* ------------------------------------------- POST /api/licenses/generate
\* A value of the JSON request body: undefined, a number, or the decimal
\* text of a number.  !v is true of undefined and of the number 0 and of no
\* non-empty text; a column of INTEGER affinity stores the text of a number
\* as that number.
JsUndefined == [type |-> "undefined", value |-> 0]
JsNumber(n) == [type |-> "number", value |-> n]
JsString(n) == [type |-> "string", value |-> n]
JsFalsy(v) == v.type = "undefined" \/ (v.type = "number" /\ v.value = 0)

\* the row of INSERT INTO licenses (..., duration_value || null,
\* duration_unit || null, is_unlimited ? 1 : 0, null, userId)
GeneratedLicense(app_id, duration_value, duration_unit, is_unlimited, userId) ==
    [NewLicense(app_id, IF is_unlimited THEN 1 ELSE 0, 1, userId)
        EXCEPT !.duration_value = IF JsFalsy(duration_value) THEN 0 ELSE duration_value.value,
               !.duration_unit = IF Falsy(duration_unit) THEN NULL ELSE duration_unit]

\* Math.max(1, Math.min(parseInt(quantity) || 1, 100)) of a whole number
NumLicenses(quantity) ==
    LET parsed == IF quantity = 0 THEN 1 ELSE quantity
        least == IF parsed < 100 THEN parsed ELSE 100
    IN  IF least > 1 THEN least ELSE 1

\* const maxAttempts = 10
MaxAttempts == 10

\* The keys generateLicenseKey can return, with a format of few wildcards.
\* Two sessions that hold the permission and the access generate at the same
\* time; each database callback of a handler is one step.  table is the
\* licenses table in insertion order.
KeySpace == {"ka", "kb", "kc"}
Generators == {"u1", "u2"}
Quantities == 0..(MaxBatch + 1) \cup {101}

GenerateBodies ==
    [duration_value : {JsUndefined, JsNumber(DurationValue)},
     duration_unit : {DurationUnit}, is_unlimited : {FALSE}, quantity : Quantities]

NoBody ==
    [duration_value |-> JsUndefined, duration_unit |-> DurationUnit, is_unlimited |-> FALSE,
     quantity |-> 1]

NoGenerate ==
    [pc |-> "idle", body |-> NoBody, numLicenses |-> 0, insertedCount |-> 0, attempts |-> 0,
     licenseKey |-> NULL, existing |-> FALSE, licenseKeys |-> <<>>, status |-> 0]

NoGeneration == [table |-> <<>>, requests |-> [g \in Generators |-> NoGenerate]]

StoredKeys(table) == {table[i].license_key : i \in 1..Len(table)}

\* INSERT into a table without the UNIQUE constraint on license_key
InsertLicenseAnyKey(table, license_key, row) ==
    [err |-> FALSE, table |-> Append(table, [license_key |-> license_key, row |-> row])]

\* INSERT INTO licenses: license_key TEXT NOT NULL UNIQUE
InsertLicense(table, license_key, row) ==
    IF license_key \in StoredKeys(table)
    THEN [err |-> TRUE, table |-> table]
    ELSE [err |-> FALSE, table |-> Append(table, [license_key |-> license_key, row |-> row])]

GenerateUnchanged ==
    UNCHANGED <<now, apps, licenses, usage, last, pausedSince, messages, inflight,
                server, rotation, call, pending>>

\* the handler up to its first key: the body is validated, the quantity clamped
GenerateStart(g, body) ==
    LET c == generation.requests[g]
    IN  /\ c.pc = "idle"
        /\ NumLicenses(body.quantity) <= MaxBatch
        /\ generation' =
              [generation EXCEPT !.requests[g] =
                 IF ~body.is_unlimited /\ (JsFalsy(body.duration_value) \/ Falsy(body.duration_unit))
                 THEN [c EXCEPT !.pc = "answered", !.body = body, !.status = 400]
                 ELSE [c EXCEPT !.pc = "generate", !.body = body,
                                !.numLicenses = NumLicenses(body.quantity)]]
        /\ GenerateUnchanged

\* tryInsert: generateLicenseKey returns licenseKey, and the SELECT looks it up
GenerateSelect(g, licenseKey) ==
    LET c == generation.requests[g]
    IN  /\ c.pc = "generate"
        /\ generation' =
              [generation EXCEPT !.requests[g] =
                 [c EXCEPT !.pc = "selected", !.licenseKey = licenseKey,
                           !.existing = licenseKey \in StoredKeys(generation.table)]]
        /\ GenerateUnchanged

\* the callback of the SELECT without the count of the attempts: a key that
\* exists is replaced by another one, however often
GenerateInsertUncounted(g) ==
    LET c == generation.requests[g]
        b == c.body
        inserted == InsertLicense(generation.table, c.licenseKey,
                                  GeneratedLicense("A1", b.duration_value, b.duration_unit,
                                                   b.is_unlimited, g))
    IN  /\ c.pc = "selected"
        /\ generation' =
              IF c.existing
              THEN [generation EXCEPT !.requests[g] = [c EXCEPT !.pc = "generate"]]
              ELSE IF inserted.err
              THEN [generation EXCEPT !.requests[g] = [c EXCEPT !.pc = "answered", !.status = 500]]
              ELSE [table |-> inserted.table,
                    requests |-> [generation.requests EXCEPT ![g] =
                       [c EXCEPT !.pc = IF c.insertedCount + 1 >= c.numLicenses
                                        THEN "answered" ELSE "generate",
                                 !.status = IF c.insertedCount + 1 >= c.numLicenses THEN 200 ELSE 0,
                                 !.insertedCount = c.insertedCount + 1,
                                 !.attempts = 0,
                                 !.licenseKeys = Append(c.licenseKeys, c.licenseKey)]]]
        /\ GenerateUnchanged

\* callback of the SELECT: another attempt, or the INSERT and, after the last
\* license, the answer
GenerateInsert(g) ==
    LET c == generation.requests[g]
        b == c.body
        inserted == InsertLicense(generation.table, c.licenseKey,
                                  GeneratedLicense("A1", b.duration_value, b.duration_unit,
                                                   b.is_unlimited, g))
    IN  /\ c.pc = "selected"
        /\ generation' =
              IF c.existing
              THEN [generation EXCEPT !.requests[g] =
                      IF c.attempts + 1 >= MaxAttempts
                      THEN [c EXCEPT !.pc = "answered", !.status = 500, !.attempts = c.attempts + 1]
                      ELSE [c EXCEPT !.pc = "generate", !.attempts = c.attempts + 1]]
              ELSE IF inserted.err
              THEN [generation EXCEPT !.requests[g] = [c EXCEPT !.pc = "answered", !.status = 500]]
              ELSE [table |-> inserted.table,
                    requests |-> [generation.requests EXCEPT ![g] =
                       [c EXCEPT !.pc = IF c.insertedCount + 1 >= c.numLicenses
                                        THEN "answered" ELSE "generate",
                                 !.status = IF c.insertedCount + 1 >= c.numLicenses THEN 200 ELSE 0,
                                 !.insertedCount = c.insertedCount + 1,
                                 !.attempts = 0,
                                 !.licenseKeys = Append(c.licenseKeys, c.licenseKey)]]]
        /\ GenerateUnchanged

\* ------------------------------------------------------ generateLicenseKey
\* A text is the sequence of its characters.
Lowercase ==
    <<"a", "b", "c", "d", "e", "f", "g", "h", "i", "j", "k", "l", "m",
      "n", "o", "p", "q", "r", "s", "t", "u", "v", "w", "x", "y", "z">>
Uppercase ==
    <<"A", "B", "C", "D", "E", "F", "G", "H", "I", "J", "K", "L", "M",
      "N", "O", "P", "Q", "R", "S", "T", "U", "V", "W", "X", "Y", "Z">>
Digits == <<"0", "1", "2", "3", "4", "5", "6", "7", "8", "9">>
SpecialChars == <<"!", "@", "#", "$", "%", "^", "&", "*">>

\* key generator whose character set holds every class
generateLicenseKeyAllClasses(format, options, randomBytes) ==
    LET chars == Lowercase \o Uppercase \o Digits \o SpecialChars
    IN  [i \in 1..Len(format) |->
            IF format[i] = "*" THEN chars[(randomBytes[i] % Len(chars)) + 1] ELSE format[i]]

\* the key built from the stored format and options and the bytes that
\* crypto.randomBytes(format.length) returned
generateLicenseKey(format, options, randomBytes) ==
    LET chars == Lowercase
                 \o (IF options.bigLetters THEN Uppercase ELSE <<>>)
                 \o (IF options.digits THEN Digits ELSE <<>>)
                 \o (IF options.specialChars THEN SpecialChars ELSE <<>>)
    IN  [i \in 1..Len(format) |->
            IF format[i] = "*" THEN chars[(randomBytes[i] % Len(chars)) + 1] ELSE format[i]]

\* formats of literals and wildcards, options, and bytes that reach the first
\* and the last characters of the classes
Formats == UNION {[1..n -> {"*", "V", "-"}] : n \in 1..MaxFormat}
FormatOptions == [bigLetters : BOOLEAN, digits : BOOLEAN, specialChars : BOOLEAN]
Bytes == {0, 26, 61, 69, 255}

NoCall == [fn |-> "none"]

CallUnchanged ==
    UNCHANGED <<now, apps, licenses, usage, last, pausedSince, messages, inflight,
                server, rotation, generation, pending>>

CallGenerateLicenseKey ==
    /\ call.fn = "generateLicenseKey"
    /\ ~call.done
    /\ call' = [call EXCEPT !.done = TRUE,
                            !.result = generateLicenseKey(call.format, call.options, call.randomBytes)]
    /\ CallUnchanged

\* ------------------------------------------------- calculateExpirationDate
Instants == {0, 3600, 7199, 7200, 9000}
Units == {"seconds", "minutes", "hours", "days", "weeks"}

CallCalculateExpirationDate ==
    /\ call.fn = "calculateExpirationDate"
    /\ ~call.done
    /\ call' = [call EXCEPT !.done = TRUE,
                            !.result = calculateExpirationDateIn(call.zone, call.durationValue,
                                                                 call.durationUnit, call.isUnlimited,
                                                                 call.now)]
    /\ CallUnchanged

\* ------------------------------------------------------------------- init
\* no check is between its lookup and its write
NoneInFlight == [p \in Clients |-> Waiting]

\* the process is up; nobody refreshes an app_id, generates licenses or calls
\* a helper function
InitOthers ==
    /\ server = Running
    /\ rotation = NoRotation
    /\ generation = NoGeneration
    /\ call = NoCall
    /\ pending = NoPending

Init ==
    /\ now = 0
    /\ apps = [a \in Apps |-> [version |-> "1.0.0", hwid_lock_enabled |-> 1,
                               webhook_url |-> "https://hook", created_by |-> "u1"]]
    /\ \E is_unlimited \in {0, 1}, is_active \in {0, 1} :
          licenses = [k \in Keys |-> NewLicense("A1", is_unlimited, is_active, "u1")]
    /\ usage = [k \in Keys |-> NoUsage]
    /\ last = Idle
    /\ pausedSince = [k \in Keys |-> NotPaused]
    /\ messages = NoMessages
    /\ inflight = NoneInFlight
    /\ InitOthers

\* The client application sends every request of CheckRequests; the licenses
\* are moderated by the admin, and banned and unbanned by their owner too.
Admin == [user |-> "admin", perm |-> TRUE]
Owner == [user |-> "u1", perm |-> TRUE]

Next ==
    \/ Tick
    \/ \E req \in CheckRequests : Check(req)
    \/ \E k \in Keys, ban \in BOOLEAN : Ban(Owner, k, ban)
    \/ \E k \in Keys : AdminBan(Admin, k)
    \/ \E k \in Keys : AdminUnban(Admin, k)
    \/ \E a \in Apps, e \in BOOLEAN : UpdateHwidLock(Admin, a, e)
    \/ \E k \in Keys : Pause(Admin, k)
    \/ \E a \in Apps : PauseAllApp(Admin, a)
    \/ \E k \in Keys : Unpause(Admin, k)
    \/ \E a \in Apps : UnpauseAllApp(Admin, a)

Spec == Init /\ [][Next]_vars

\* Pause and resume requests of every session on every target; the client
\* application checks with one machine and no version.
PauseCheckRequests ==
    [user : {ABSENT}, perm : {FALSE}, app_id : Apps, license_key : Keys,
     hwid : {"H1"}, app_version : {ABSENT}]

NextPause ==
    \/ Tick
    \/ \E req \in PauseCheckRequests : Check(req)
    \/ \E k \in Keys : AdminBan(Admin, k)
    \/ \E k \in Keys : AdminUnban(Admin, k)
    \/ \E t \in KeyTargets : Pause(t.s, t.id)
    \/ \E t \in AppTargets : PauseAllApp(t.s, t.id)
    \/ \E t \in KeyTargets : Unpause(t.s, t.id)
    \/ \E t \in AppTargets : UnpauseAllApp(t.s, t.id)

SpecPause == Init /\ [][NextPause]_vars

\* Extend requests: the owner, a session without the permission, a stranger
\* and the admin; durations of one and two seconds, one day for the owner's
\* route, and a request that carries none.
ExtendSessions == {Owner, [user |-> "u1", perm |-> FALSE], [user |-> "u2", perm |-> TRUE], Admin}

\* The rows POST /api/licenses/generate stores: an unlimited license without
\* and with the duration the request carried, a duration license, and the
\* license of a request whose duration_value is the text "0", which passes
\* the validation and is stored as the number 0.
GenerateKinds ==
    { <<JsUndefined, ABSENT, TRUE>>, <<JsNumber(DurationValue), DurationUnit, TRUE>>,
      <<JsNumber(DurationValue), DurationUnit, FALSE>>, <<JsString(0), DurationUnit, FALSE>> }

InitExtend ==
    /\ now = 0
    /\ apps = [a \in Apps |-> [version |-> "1.0.0", hwid_lock_enabled |-> 1,
                               webhook_url |-> "https://hook", created_by |-> "u1"]]
    /\ \E kind \in GenerateKinds, is_active \in {0, 1} :
          licenses = [k \in Keys |->
                        [GeneratedLicense("A1", kind[1], kind[2], kind[3], "u1")
                            EXCEPT !.is_active = is_active]]
    /\ usage = [k \in Keys |-> NoUsage]
    /\ last = Idle
    /\ pausedSince = [k \in Keys |-> NotPaused]
    /\ messages = NoMessages
    /\ inflight = NoneInFlight
    /\ InitOthers

NextExtend ==
    \/ Tick
    \/ \E req \in PauseCheckRequests : Check(req)
    \/ \E s \in ExtendSessions, k \in Keys, d \in {0, 1} : Extend(s, k, d)
    \/ \E s \in ExtendSessions, k \in Keys, d \in {0, 1, 2} : AdminExtend(s, k, d, "seconds")
    \/ \E s \in ExtendSessions, d \in {0, 1} : ExtendAll(s, d, "seconds")
    \/ \E k \in Keys : AdminBan(Admin, k)
    \/ \E k \in Keys : AdminUnban(Admin, k)

SpecExtend == InitExtend /\ [][NextExtend]_vars

\* The whole life of a license: checked by the client application, extended by
\* its owner and by the admin, paused, resumed, banned and unbanned by the
\* admin, its hardware lock reset by the owner and by the admin.
NextLife ==
    \/ Tick
    \/ \E req \in PauseCheckRequests : Check(req)
    \/ \E k \in Keys : Extend(Owner, k, 1)
    \/ \E k \in Keys : AdminExtend(Admin, k, 1, "seconds")
    \/ ExtendAll(Owner, 1, "seconds")
    \/ \E k \in Keys : Pause(Admin, k)
    \/ \E k \in Keys : Unpause(Admin, k)
    \/ \E k \in Keys : AdminBan(Admin, k)
    \/ \E k \in Keys : AdminUnban(Admin, k)
    \/ \E k \in Keys : ResetHwid(Owner, k)
    \/ \E k \in Keys : AdminResetHwid(Admin, k)

SpecLife == InitExtend /\ [][NextLife]_vars

\* The client application sends requests that are rejected before the
\* hardware-lock policy (a field missing, no such application or license, an
\* old version) next to requests that pass, while the admin bans, pauses and
\* resets the license.
RejectRequests ==
    [user : {ABSENT}, perm : {FALSE}, app_id : Apps, license_key : Keys,
     hwid : {"H1"}, app_version : {ABSENT, "2.0.0"}]
    \cup
    { [user |-> ABSENT, perm |-> FALSE, app_id |-> r[1], license_key |-> r[2],
       hwid |-> "H1", app_version |-> ABSENT] :
      r \in { <<ABSENT, "K1">>, <<"A1", ABSENT>>, <<"A0", "K1">>, <<"A1", "K0">> } }

NextReject ==
    \/ Tick
    \/ \E req \in RejectRequests : Check(req)
    \/ \E k \in Keys : AdminBan(Admin, k)
    \/ \E k \in Keys : AdminUnban(Admin, k)
    \/ \E k \in Keys : Pause(Admin, k)
    \/ \E k \in Keys : Unpause(Admin, k)
    \/ \E k \in Keys : AdminResetHwid(Admin, k)

SpecReject == Init /\ [][NextReject]_vars

\* The owner of the application edits the custom message of a miss while the
\* client application sends checks that hit and that miss for every cause.
MessageTexts == {"", "Contact support"}

MissRequests ==
    { [user |-> ABSENT, perm |-> FALSE, app_id |-> r[1], license_key |-> r[2],
       hwid |-> "H1", app_version |-> ABSENT] :
      r \in { <<"A1", "K1">>, <<"A0", "K1">>, <<"A1", "K0">>, <<"A0", "K0">> } }

NextMessages ==
    \/ Tick
    \/ \E req \in MissRequests : Check(req)
    \/ \E s \in {Owner, [user |-> "u1", perm |-> FALSE]}, key \in {"invalid-license", "license-banned"},
          value \in MessageTexts : SaveMessage(s, key, value)
    \/ \E k \in Keys : AdminBan(Admin, k)
    \/ \E k \in Keys : AdminUnban(Admin, k)

SpecMessages == Init /\ [][NextMessages]_vars

\* Two client applications check the same license at the same time while the
\* admin switches the hardware lock.
NextRace ==
    \/ Tick
    \/ \E p \in Clients, req \in RaceRequests : ClientLookup(p, req)
    \/ \E p \in Clients : ClientReply(p)
    \/ \E p \in Clients : ClientWrite(p)
    \/ \E a \in Apps, e \in BOOLEAN : UpdateHwidLock(Admin, a, e)

SpecRace == Init /\ [][NextRace]_vars

\* The client application checks a license of every kind that generate
\* stores, with and without a hwid and a version, and asks for rows that do
\* not exist; the lookup of a check can fail; the owner of the application
\* sets and removes its webhook URL and edits the message of an expired
\* license; the notifications of the checks are dispatched.  The installation
\* may carry rows of custom_messages of no user, which the migration of an
\* older table leaves behind.
LegacyMessages ==
    [NoMessages EXCEPT ![NULL] =
        [k \in MessageKeys |-> IF k \in {"database-error", "license-expired"}
                               THEN "Legacy text" ELSE NULL]]

InitNotify ==
    /\ now = 0
    /\ apps = [a \in Apps |-> [version |-> "1.0.0", hwid_lock_enabled |-> 1,
                               webhook_url |-> "https://hook", created_by |-> "u1"]]
    /\ \E kind \in GenerateKinds :
          licenses = [k \in Keys |-> GeneratedLicense("A1", kind[1], kind[2], kind[3], "u1")]
    /\ usage = [k \in Keys |-> NoUsage]
    /\ last = Idle
    /\ pausedSince = [k \in Keys |-> NotPaused]
    /\ messages \in {NoMessages, LegacyMessages}
    /\ inflight = NoneInFlight
    /\ InitOthers

NotifyRequests ==
    [user : {ABSENT}, perm : {FALSE}, app_id : Apps, license_key : Keys,
     hwid : {ABSENT, "H1"}, app_version : {ABSENT, "2.0.0"}]
    \cup
    { [user |-> ABSENT, perm |-> FALSE, app_id |-> r[1], license_key |-> r[2],
       hwid |-> "H1", app_version |-> ABSENT] :
      r \in { <<"A0", "K1">>, <<"A1", "K0">> } }

NextNotify ==
    \/ Tick
    \/ \E req \in NotifyRequests : Check(req)
    \/ \E req \in PauseCheckRequests : CheckDatabaseError(req)
    \/ SendDiscordWebhook
    \/ \E s \in {Owner, [user |-> "u1", perm |-> FALSE]}, a \in Apps, url \in WebhookUrls :
          UpdateWebhook(s, a, url)
    \/ \E value \in MessageTexts : SaveMessage(Owner, "license-expired", value)

SpecNotify == InitNotify /\ [][NextNotify]_vars

\* Two sessions refresh the app_id of the same application at the same time,
\* and a statement of either can fail.
NextRotation ==
    \/ \E r \in Refreshers : RefreshLookup(r)
    \/ \E r \in Refreshers, ok \in BOOLEAN : RefreshApplication(r, ok)
    \/ \E r \in Refreshers, ok \in BOOLEAN : RefreshLicenses(r, ok)
    \/ \E r \in Refreshers, ok \in BOOLEAN : RefreshAccess(r, ok)
    \/ \E r \in Refreshers, ok \in BOOLEAN : RefreshCommit(r, ok)
    \/ \E r \in Refreshers : RefreshAnswer(r)

InitRotation ==
    /\ now = 0
    /\ apps = [a \in Apps |-> [version |-> "1.0.0", hwid_lock_enabled |-> 1,
                               webhook_url |-> "https://hook", created_by |-> "u1"]]
    /\ licenses = [k \in Keys |-> NewLicense("A1", 0, 1, "u1")]
    /\ usage = [k \in Keys |-> NoUsage]
    /\ last = Idle
    /\ pausedSince = [k \in Keys |-> NotPaused]
    /\ messages = NoMessages
    /\ inflight = NoneInFlight
    /\ server = Running
    /\ rotation \in {NoRotation, [NoRotation EXCEPT !.shared = FALSE]}
    /\ generation = NoGeneration
    /\ call = NoCall
    /\ pending = NoPending

SpecRotation == InitRotation /\ [][NextRotation]_vars

\* Two sessions generate licenses at the same time: the first sends every
\* body, the second asks for one license.
OneLicense ==
    [duration_value |-> JsNumber(DurationValue), duration_unit |-> DurationUnit,
     is_unlimited |-> FALSE, quantity |-> 1]

NextGenerate ==
    \/ \E body \in GenerateBodies : GenerateStart("u1", body)
    \/ GenerateStart("u2", OneLicense)
    \/ \E g \in Generators, licenseKey \in KeySpace : GenerateSelect(g, licenseKey)
    \/ \E g \in Generators : GenerateInsert(g)

InitGenerate ==
    /\ now = 0
    /\ apps = [a \in Apps |-> [version |-> "1.0.0", hwid_lock_enabled |-> 1,
                               webhook_url |-> "https://hook", created_by |-> "u1"]]
    /\ licenses = [k \in Keys |-> NewLicense("A1", 0, 1, "u1")]
    /\ usage = [k \in Keys |-> NoUsage]
    /\ last = Idle
    /\ pausedSince = [k \in Keys |-> NotPaused]
    /\ messages = NoMessages
    /\ inflight = NoneInFlight
    /\ InitOthers

SpecGenerate == InitGenerate /\ [][NextGenerate]_vars

\* The database answers every statement: the callback of a SELECT and of an
\* INSERT of a request under way is eventually called.  Nothing obliges a
\* session to send a request.
FairGenerate ==
    \A g \in Generators :
        /\ WF_vars(\E licenseKey \in KeySpace : GenerateSelect(g, licenseKey))
        /\ WF_vars(GenerateInsert(g))

SpecGenerateFair == InitGenerate /\ [][NextGenerate]_vars /\ FairGenerate

\* generateLicenseKey is called with every format, every choice of options
\* and the random bytes of Bytes.
InitKeys ==
    /\ now = 0
    /\ apps = [a \in Apps |-> [version |-> "1.0.0", hwid_lock_enabled |-> 1,
                               webhook_url |-> "https://hook", created_by |-> "u1"]]
    /\ licenses = [k \in Keys |-> NewLicense("A1", 0, 1, "u1")]
    /\ usage = [k \in Keys |-> NoUsage]
    /\ last = Idle
    /\ pausedSince = [k \in Keys |-> NotPaused]
    /\ messages = NoMessages
    /\ inflight = NoneInFlight
    /\ server = Running
    /\ rotation = NoRotation
    /\ generation = NoGeneration
    /\ pending = NoPending
    /\ \E format \in Formats, options \in FormatOptions :
          \E randomBytes \in [1..Len(format) -> Bytes] :
             call = [fn |-> "generateLicenseKey", format |-> format, options |-> options,
                     randomBytes |-> randomBytes, done |-> FALSE, result |-> <<>>]

NextKeys == CallGenerateLicenseKey

SpecKeys == InitKeys /\ [][NextKeys]_vars

\* calculateExpirationDate is called in either time zone, at instants before
\* and after the clock change, with every unit and an unknown one.
InitExpiration ==
    /\ now = 0
    /\ apps = [a \in Apps |-> [version |-> "1.0.0", hwid_lock_enabled |-> 1,
                               webhook_url |-> "https://hook", created_by |-> "u1"]]
    /\ licenses = [k \in Keys |-> NewLicense("A1", 0, 1, "u1")]
    /\ usage = [k \in Keys |-> NoUsage]
    /\ last = Idle
    /\ pausedSince = [k \in Keys |-> NotPaused]
    /\ messages = NoMessages
    /\ inflight = NoneInFlight
    /\ server = Running
    /\ rotation = NoRotation
    /\ generation = NoGeneration
    /\ pending = NoPending
    /\ \E zone \in Zones, t \in Instants, durationValue \in 0..MaxValue, durationUnit \in Units,
          isUnlimited \in BOOLEAN :
             call = [fn |-> "calculateExpirationDate", zone |-> zone, now |-> t,
                     durationValue |-> durationValue, durationUnit |-> durationUnit,
                     isUnlimited |-> isUnlimited, done |-> FALSE, result |-> NoTime]

NextExpiration == CallCalculateExpirationDate

SpecExpiration == InitExpiration /\ [][NextExpiration]_vars

\* The client application checks with two machines and with none while the
\* owner resets the hardware lock of the license and the admin switches the
\* lock of the application.
BindRequests ==
    [user : {ABSENT}, perm : {FALSE}, app_id : Apps, license_key : Keys,
     hwid : {ABSENT, "H1", "H2"}, app_version : {ABSENT}]

NextBind ==
    \/ Tick
    \/ \E req \in BindRequests : Check(req)
    \/ \E k \in Keys : ResetHwid(Owner, k)
    \/ \E a \in Apps, e \in BOOLEAN : UpdateHwidLock(Admin, a, e)

SpecBind == Init /\ [][NextBind]_vars

\* The client application checks a license that the admin extends by a second
\* and by a day.
NextPayload ==
    \/ Tick
    \/ \E req \in PauseCheckRequests : Check(req)
    \/ \E k \in Keys, unit \in {"seconds", "days"} : AdminExtend(Admin, k, 1, unit)

SpecPayload == InitExtend /\ [][NextPayload]_vars

\* Two client applications check the same license at the same time with
\* different hwids while the hardware lock of the application stays enabled;
\* the owner resets the hardware lock of the license.
NextLock ==
    \/ Tick
    \/ \E p \in Clients, req \in RaceRequests : ClientLookup(p, req)
    \/ \E p \in Clients : ClientReply(p)
    \/ \E p \in Clients : ClientWrite(p)
    \/ \E k \in Keys : ResetHwid(Owner, k)

SpecLock == Init /\ [][NextLock]_vars

\* The admin and the owner resume and extend a license with two requests
\* that overlap, while the client application checks it and the admin pauses
\* it.
NextOverlap ==
    \/ Tick
    \/ \E req \in PauseCheckRequests : Check(req)
    \/ \E k \in Keys : Pause(Admin, k)
    \/ \E w \in Writers, k \in Keys : UnpauseSelect(w, Admin, k)
    \/ \E k \in Keys : AdminExtendSelect("w1", Admin, k, 1, "seconds")
    \/ \E k \in Keys : AdminExtendSelect("w2", Admin, k, 2, "seconds")
    \/ \E k \in Keys : ExtendSelect("w2", Owner, k, 1)
    \/ \E w \in Writers : UpdateLands(w)

SpecOverlap == InitExtend /\ [][NextOverlap]_vars

\* The owner and the admin reset the hardware lock of a license of every kind
\* that generate stores, while the client application checks it from two
\* machines and without a hwid and the admin pauses, resumes, bans and unbans
\* it.  The hardware lock of the application stays enabled.
NextReset ==
    \/ Tick
    \/ \E req \in BindRequests : Check(req)
    \/ \E k \in Keys : ResetHwid(Owner, k)
    \/ \E k \in Keys : AdminResetHwid(Admin, k)
    \/ \E k \in Keys : Pause(Admin, k)
    \/ \E k \in Keys : Unpause(Admin, k)
    \/ \E k \in Keys : AdminBan(Admin, k)
    \/ \E k \in Keys : AdminUnban(Admin, k)

SpecReset == InitExtend /\ [][NextReset]_vars

\* ================================================================ properties
\* The request just answered, the row it named as it was before the request,
\* and the application it named as it was before the request.
CheckDone == last.op = "check"
CheckedExisting == CheckDone /\ last.req.license_key \in Keys /\ last.req.app_id \in Apps
Before == last.pre[last.req.license_key]
After == licenses[last.req.license_key]
AppBefore == last.preApps[last.req.app_id]

\* the lookup resolves the license (step 1 does not match)
Resolved ==
    /\ CheckedExisting
    /\ Before.app_id = last.req.app_id
    /\ Before.is_active = 1

\* no app_version supplied, none configured, or the two agree (step 2 does not match)
VersionAccepted ==
    \/ Falsy(last.req.app_version)
    \/ Falsy(AppBefore.version)
    \/ AppBefore.version = last.req.app_version

\* the check reaches the hardware-lock policy: steps 1 to 5 do not match
ReachesHardwarePolicy ==
    /\ Resolved
    /\ VersionAccepted
    /\ Before.is_banned = 0
    /\ Before.is_paused = 0

LockWasEnabled == AppBefore.hwid_lock_enabled = 1

NotYetActivated(license) == license.is_unlimited = 0 /\ license.expires_at = NoTime
Activated(license) == license.is_unlimited = 0 /\ license.expires_at # NoTime
BlankHwid(hwid) == hwid \in {ABSENT, "", " "}

\* --------------------------------------------------------------------- C1
\* C1: a check of a license that is banned and whose expires_at is in the
\* past is never answered with the expired reason, and once the lookup has
\* resolved the license and the version gate has passed it is answered with
\* the banned reason (license-banned), whatever the hwid of the request and
\* the hardware-lock setting of the application.
BannedAndExpired ==
    /\ CheckedExisting
    /\ Before.is_banned = 1
    /\ Before.expires_at # NoTime
    /\ Before.expires_at < now

C1_BannedBeatsExpired ==
    BannedAndExpired =>
        /\ last.code # "license-expired"
        /\ (Resolved /\ VersionAccepted) => (last.code = "license-banned" /\ ~last.success)

\* a banned, expired license on an application without hardware lock, checked
\* from another machine than the one it was bound to
C1_Witness ==
    /\ BannedAndExpired
    /\ Resolved
    /\ VersionAccepted
    /\ ~LockWasEnabled
    /\ last.req.hwid = "H2"
    /\ last.code = "license-banned"

\* --------------------------------------------------------------------- C2
\* The outcome the precedence list prescribes: the reason of the first step
\* that matches, "ok" when none does.
LockStepOutcome(license, app, hwid) ==
    IF app.hwid_lock_enabled # 1 THEN "none"
    ELSE IF NotYetActivated(license)
    THEN IF BlankHwid(hwid) THEN "hwid-required" ELSE "none"
    ELSE IF license.locked_hwid # NULL /\ license.locked_hwid # hwid THEN "hwid-mismatch"
    ELSE "none"

FirstMatchingStep(req, table, applications, t) ==
    IF ~(/\ req.license_key \in Keys
         /\ req.app_id \in Apps
         /\ table[req.license_key].app_id = req.app_id
         /\ table[req.license_key].is_active = 1)
    THEN "invalid-license"
    ELSE LET license == table[req.license_key]
             app == applications[req.app_id]
         IN  IF req.app_version \notin {ABSENT, ""} /\ app.version \notin {NULL, ""}
                /\ req.app_version # app.version
             THEN "version-mismatch"
             ELSE IF license.is_banned = 1 THEN "license-banned"
             ELSE IF license.is_paused = 1 THEN "license-paused"
             ELSE IF license.is_active = 0 THEN "license-inactive"
             ELSE IF LockStepOutcome(license, app, req.hwid) # "none"
             THEN LockStepOutcome(license, app, req.hwid)
             ELSE IF Activated(license) /\ t > license.expires_at THEN "license-expired"
             ELSE "ok"

\* C2: every check that carries app_id and license_key is answered with the
\* outcome of the first matching step of the precedence list (not found or
\* inactive at the join, version mismatch, banned, paused, inactive, HWID
\* required / HWID mismatch, expired) and is accepted only if no step matches.
C2_FirstMatchWins ==
    (CheckDone /\ last.code # "required-fields") =>
        /\ last.code = FirstMatchingStep(last.req, last.pre, last.preApps, now)
        /\ last.success <=> (last.code = "ok")

\* --------------------------------------------------------------------- C3
FirstActivationCase ==
    /\ ReachesHardwarePolicy
    /\ LockWasEnabled
    /\ NotYetActivated(Before)

C4_HwidRequiredLeavesRow ==
    (FirstActivationCase /\ BlankHwid(last.req.hwid)) =>
        /\ ~last.success
        /\ last.code = "hwid-required"
        /\ After.expires_at = NoTime
        /\ After.locked_hwid = NULL
        /\ After = Before

\* the whitespace-only hwid
C4_Witness ==
    /\ FirstActivationCase
    /\ last.req.hwid = " "
    /\ last.code = "hwid-required"
    /\ After.expires_at = NoTime

\* --------------------------------------------------------------------- C5
LockedElsewhereCase ==
    /\ ReachesHardwarePolicy
    /\ LockWasEnabled
    /\ Activated(Before)
    /\ Before.locked_hwid # NULL
    /\ last.req.hwid # Before.locked_hwid

\* C5: on a hardware-lock-enabled application a check of an activated
\* duration license whose locked_hwid is set, with an hwid that is not equal
\* to locked_hwid or with no hwid, is rejected with the hwid-mismatch reason
\* and leaves locked_hwid unchanged.
C5_MismatchRejected ==
    LockedElsewhereCase =>
        /\ ~last.success
        /\ last.code = "hwid-mismatch"
        /\ After.locked_hwid = Before.locked_hwid

\* the request without hwid
C5_Witness ==
    /\ LockedElsewhereCase
    /\ last.req.hwid = ABSENT
    /\ Before.locked_hwid = "H1"
    /\ last.code = "hwid-mismatch"

\* --------------------------------------------------------------------- C6
\* C6: on a hardware-lock-enabled application an unlimited license that was
\* bound by an accepted check with hwid "H1" rejects a later check with hwid
\* "H2" with the hwid-mismatch reason.
C6_UnlimitedMismatchRejected ==
    ( /\ ReachesHardwarePolicy
      /\ LockWasEnabled
      /\ Before.is_unlimited = 1
      /\ Before.locked_hwid = "H1"
      /\ last.req.hwid = "H2" ) =>
        /\ ~last.success
        /\ last.code = "hwid-mismatch"

\* --------------------------------------------------------------------- C7
LockDisabledCase ==
    /\ ReachesHardwarePolicy
    /\ ~LockWasEnabled
    /\ Before.locked_hwid # NULL

\* C7: when the hardware lock of the application is disabled, a check of a
\* license whose locked_hwid was set (a check that reaches the hardware-lock
\* policy) leaves locked_hwid = NULL, whatever hwid it carries and whether
\* it is accepted or rejected as expired.
C7_DisabledLockClears ==
    LockDisabledCase => After.locked_hwid = NULL

\* the bound machine itself checks an activated license after the lock was disabled
C7_Witness ==
    /\ LockDisabledCase
    /\ Activated(Before)
    /\ Before.locked_hwid = "H1"
    /\ last.req.hwid = "H1"
    /\ After.locked_hwid = NULL

\* --------------------------------------------------------------------- C8
\* C8: when a license that was paused at instant P with expiry E is resumed,
\* whatever pause requests were made in between, its expires_at becomes
\* E + (now - P).
C8_ResumeAddsPausedTime ==
    [][ \A k \in Keys :
          ( /\ licenses[k].is_paused = 1
            /\ licenses'[k].is_paused = 0
            /\ pausedSince[k].expires_at # NoTime )
          => licenses'[k].expires_at = pausedSince[k].expires_at + (now - pausedSince[k].at) ]_vars

\* --------------------------------------------------------------------- C9
PauseEligible(license, t) ==
    /\ license.is_active = 1
    /\ license.is_banned = 0
    /\ license.is_paused = 0
    /\ \/ license.is_unlimited = 1
       \/ license.expires_at = NoTime
       \/ license.expires_at > t

\* C9: a pause request (single or per application) changes a license only if
\* the license is active, not banned, not already paused, and unlimited or
\* not yet expired; otherwise is_paused, paused_at and paused_expires_at are
\* unchanged.
C9_PauseOnlyIfEligible ==
    last.op \in {"pause", "pause-all"} =>
        \A k \in Keys :
            ~PauseEligible(last.pre[k], now) =>
                /\ licenses[k].is_paused = last.pre[k].is_paused
                /\ licenses[k].paused_at = last.pre[k].paused_at
                /\ licenses[k].paused_expires_at = last.pre[k].paused_expires_at

\* -------------------------------------------------------------------- C10
\* the row a resume leaves behind, as the claim states it
Resumed(license, t) ==
    [license EXCEPT !.is_paused = 0,
                    !.paused_at = NoTime,
                    !.paused_expires_at = NoTime,
                    !.expires_at = IF license.paused_expires_at # NoTime
                                   THEN license.paused_expires_at + (t - license.paused_at)
                                   ELSE license.expires_at]

\* C10: an accepted resume sets is_paused = 0, clears paused_at and
\* paused_expires_at, and sets expires_at to paused_expires_at + (now -
\* paused_at) when paused_expires_at was set and leaves expires_at as it was
\* (NULL included) otherwise; the single, the per-application and the global
\* unpause handlers compute the same value for every stored row.
C10_ResumeEffect ==
    /\ (last.op = "unpause" /\ last.status = 200) =>
          licenses[last.req.license_key] = Resumed(last.pre[last.req.license_key], now)
    /\ (last.op = "unpause-all" /\ last.status = 200) =>
          \A k \in Keys :
              (last.pre[k].app_id = last.req.app_id /\ last.pre[k].is_paused = 1)
                  => licenses[k] = Resumed(last.pre[k], now)
    /\ \A k \in Keys :
          /\ UnpauseNewExpiresAt(licenses[k], now) = UnpauseAllAppNewExpiresAt(licenses[k], now)
          /\ UnpauseAllAppNewExpiresAt(licenses[k], now) = UnpauseAllNewExpiresAt(licenses[k], now)

\* a resume, some time after the pause, of a license paused with an expiry
C10_Witness ==
    /\ last.op = "unpause"
    /\ last.status = 200
    /\ last.pre[last.req.license_key].is_paused = 1
    /\ last.pre[last.req.license_key].paused_expires_at # NoTime
    /\ now > last.pre[last.req.license_key].paused_at
    /\ licenses[last.req.license_key].is_paused = 0

\* -------------------------------------------------------------------- C11
ExtendDone == last.op \in {"extend", "admin-extend", "extend-all"}
SingleExtendDone == last.op \in {"extend", "admin-extend"} /\ last.req.license_key \in Keys

\* unlimited, or expires_at already in the past
Unextendable(license, t) ==
    \/ license.is_unlimited = 1
    \/ license.expires_at # NoTime /\ license.expires_at < t

\* C11: every extend request (the owner's, the admin route, the global bulk
\* route, and the handler of the per-application bulk route), whatever the
\* session that sends it, leaves every unlimited license and every license
\* whose expires_at is in the past exactly as it was, and the two
\* single-license routes answer such a request with an error status.
C11_ExtendRejectsUnlimitedAndExpired ==
    /\ ExtendDone =>
          \A k \in Keys : Unextendable(last.pre[k], now) => licenses[k] = last.pre[k]
    /\ (SingleExtendDone /\ Unextendable(last.pre[last.req.license_key], now)) =>
          (last.status >= 400 /\ ~last.success)
    /\ \A k \in Keys, s \in ExtendSessions, a \in Apps, d \in {1, 2} :
          Unextendable(licenses[k], now) =>
              ExtendAllInApp(s, a, d, "seconds", now).table[k] = licenses[k]

\* the owner, holding the permission, extends their own expired license
C11_Witness ==
    /\ last.op = "extend"
    /\ last.req.user = "u1"
    /\ last.req.perm
    /\ last.arg = 1
    /\ last.pre["K1"].is_unlimited = 0
    /\ last.pre["K1"].expires_at # NoTime
    /\ last.pre["K1"].expires_at < now
    /\ last.status = 400

\* -------------------------------------------------------------------- C12
Max(a, b) == IF a > b THEN a ELSE b

C13_ExtendActivatesFirst ==
    /\ (last.op = "extend" /\ last.status = 200
            /\ NotYetActivated(last.pre[last.req.license_key])) =>
          licenses[last.req.license_key].expires_at =
              now + last.pre[last.req.license_key].duration_value
                        * UnitSeconds(last.pre[last.req.license_key].duration_unit)
                  + last.arg * 86400
    /\ (last.op = "admin-extend" /\ last.status = 200
            /\ NotYetActivated(last.pre[last.req.license_key])) =>
          licenses[last.req.license_key].expires_at =
              now + last.pre[last.req.license_key].duration_value
                        * UnitSeconds(last.pre[last.req.license_key].duration_unit)
                  + last.arg
    /\ (last.op = "extend-all" /\ last.status = 200) =>
          \A k \in Keys :
              (licenses[k] # last.pre[k] /\ NotYetActivated(last.pre[k])) =>
                  licenses[k].expires_at =
                      now + last.pre[k].duration_value * UnitSeconds(last.pre[k].duration_unit)
                          + last.arg

\* -------------------------------------------------------------------- C14
\* activated, not paused, expires_at in the past
ExpiredUnpaused(license, t) ==
    /\ Activated(license)
    /\ license.is_paused = 0
    /\ license.expires_at < t

\* C14: an activated, unpaused duration license whose expires_at is in the
\* past stays so through every check, extend, pause, unpause, ban, unban and
\* reset-hwid request and every passing of time; no check of it is accepted,
\* a check of it that no earlier step rejects is answered with the expired
\* reason, and an extend of it on a single-license route is answered with
\* status 400 and changes nothing.
C14_ExpiredStaysExpired ==
    /\ [][ \A k \in Keys :
              ExpiredUnpaused(licenses[k], now) =>
                  /\ ExpiredUnpaused(licenses'[k], now')
                  /\ licenses'[k].expires_at = licenses[k].expires_at ]_vars
    /\ []( (CheckedExisting /\ Resolved /\ ExpiredUnpaused(Before, now)) =>
              /\ ~last.success
              /\ (ReachesHardwarePolicy /\ LockStepOutcome(Before, AppBefore, last.req.hwid) = "none")
                    => last.code = "license-expired" )
    /\ []( (SingleExtendDone /\ ExpiredUnpaused(last.pre[last.req.license_key], now)
               /\ last.status \notin {403, 404}) =>
              /\ last.status = 400
              /\ licenses = last.pre )

\* the owner's extend of an expired license has just been refused
C14_Witness ==
    /\ last.op = "extend"
    /\ last.status = 400
    /\ ExpiredUnpaused(last.pre["K1"], now)
    /\ ExpiredUnpaused(licenses["K1"], now)
    /\ licenses["K1"].locked_hwid = "H1"

\* -------------------------------------------------------------------- C15
\* the three states, each by its own test: duration-based and expires_at NULL,
\* expires_at set, unlimited
ResolvesAsFirstActivation(license) ==
    /\ license.is_unlimited = 0
    /\ license.expires_at = NoTime

ResolvesAsActivated(license) == license.expires_at # NoTime

ResolvesAsUnlimited(license) == license.is_unlimited = 1

\* C15: in every state an unlimited license has expires_at = NULL, and every
\* license is in exactly one of the states unlimited, duration-based not yet
\* activated (expires_at NULL) and duration-based activated (expires_at set).
C15_ExactlyOneLicenseState ==
    \A k \in Keys :
        /\ licenses[k].is_unlimited = 1 => licenses[k].expires_at = NoTime
        /\ Cardinality({ b \in { <<1, ResolvesAsFirstActivation(licenses[k])>>,
                                 <<2, ResolvesAsActivated(licenses[k])>>,
                                 <<3, ResolvesAsUnlimited(licenses[k])>> } : b[2] }) = 1

\* an unlimited license that was generated with a duration, bound by a check,
\* paused and resumed, and whose extend the admin route has just refused
C15_Witness ==
    /\ last.op = "admin-extend"
    /\ last.status = 400
    /\ licenses["K1"].is_unlimited = 1
    /\ licenses["K1"].duration_value = DurationValue
    /\ licenses["K1"].locked_hwid = "H1"
    /\ licenses["K1"].expires_at = NoTime
    /\ now > 0

\* -------------------------------------------------------------------- C16
\* C16: a check request without app_id or without license_key is answered
\* with status 400, success false and the fixed required-fields reason, the
\* same in every state (nothing stored is looked up), changes no license, no
\* usage row and no application, and sends no notification.
C16_MissingFieldsRejected ==
    [][ \A req \in RejectRequests :
          (Check(req) /\ (Falsy(req.app_id) \/ Falsy(req.license_key))) =>
              /\ last'.status = 400
              /\ ~last'.success
              /\ last'.code = "required-fields"
              /\ last'.reason = "app_id and license_key are required"
              /\ last'.hook = "none"
              /\ licenses' = licenses
              /\ usage' = usage
              /\ apps' = apps ]_vars

\* a request without app_id for a license that an earlier check activated
C16_Witness ==
    /\ CheckDone
    /\ last.req.app_id = ABSENT
    /\ last.req.license_key = "K1"
    /\ last.status = 400
    /\ last.code = "required-fields"
    /\ usage["K1"].rows = 1
    /\ licenses["K1"].expires_at # NoTime

\* -------------------------------------------------------------------- C17
\* what the client application receives
Response(req) ==
    [status |-> CheckLicense(req, now).status,
     success |-> CheckLicense(req, now).success,
     reason |-> CheckReason(req, CheckLicense(req, now).code)]

\* C17: in every state any two check requests that miss the join of license
\* and application (unknown license key, unknown app_id, a key of another
\* application, an inactive license) receive the same response.
C17_MissesIndistinguishable ==
    \A r1 \in MissRequests, r2 \in MissRequests :
        (~LicenseFound(r1) /\ ~LicenseFound(r2)) => Response(r1) = Response(r2)

\* -------------------------------------------------------------------- C18
\* the check of client p found the license not yet activated
ReadNotActivated(p) ==
    /\ inflight[p].pc \in {"writing", "done"}
    /\ NotYetActivated(inflight[p].row)

\* C18: when the checks of two clients both find the same license not yet
\* activated, both are accepted, and once both UPDATEs have reached the table
\* the row holds the expires_at and the locked_hwid of the UPDATE that
\* arrived last: expires_at is set, and no column comes from the other UPDATE.
C18_LastActivationWriteWins ==
    /\ \A p \in Clients : ReadNotActivated(p) => inflight[p].accepted
    /\ (\A p \in Clients : ReadNotActivated(p) /\ inflight[p].pc = "done") =>
          \E p \in Clients :
              /\ inflight[p].landed = Cardinality(Clients)
              /\ licenses[inflight[p].req.license_key].expires_at # NoTime
              /\ licenses[inflight[p].req.license_key].expires_at = inflight[p].update.expires_at
              /\ licenses[inflight[p].req.license_key].locked_hwid = inflight[p].update.locked_hwid

\* two machines activate at different instants; the UPDATE of the earlier
\* callback arrives last and its values are the ones stored
C18_Witness ==
    /\ \A p \in Clients : ReadNotActivated(p) /\ inflight[p].pc = "done"
    /\ inflight["c1"].req.hwid = "H1"
    /\ inflight["c2"].req.hwid = "H2"
    /\ inflight["c1"].update.expires_at < inflight["c2"].update.expires_at
    /\ inflight["c1"].landed = 2
    /\ licenses["K1"].expires_at = inflight["c1"].update.expires_at
    /\ licenses["K1"].locked_hwid = "H1"

\* -------------------------------------------------------------------- C19
\* C19: license_usage holds at most one row per license key in every state.
C19_OneUsageRowPerKey ==
    \A k \in Keys : usage[k].rows <= 1

\* -------------------------------------------------------------------- C20
EarlyRejections ==
    {"invalid-license", "version-mismatch", "license-banned", "license-paused", "license-inactive"}

\* C20: a check rejected at steps 1 to 5 of the precedence list (not found,
\* version mismatch, banned, paused, inactive) leaves license_usage and the
\* licenses table as they were: expires_at and locked_hwid are not written.
C20_EarlyRejectionWritesNothing ==
    [][ \A req \in RejectRequests :
          (Check(req) /\ last'.code \in EarlyRejections) =>
              /\ usage' = usage
              /\ licenses' = licenses ]_vars

\* a paused license that was checked once before is checked again
C20_Witness ==
    /\ CheckDone
    /\ last.code = "license-paused"
    /\ usage["K1"].rows = 1
    /\ licenses = last.pre
    /\ licenses["K1"].locked_hwid = "H1"

\* -------------------------------------------------------------------- C21
\* webhook_url is empty: NULL, no text, or blanks only
EmptyUrl(webhook_url) == Falsy(webhook_url) \/ Trim(webhook_url) = ""

\* C21: a check that ends with a resolved context (every answer but the
\* missing-fields one and the lookup error, on an application that exists)
\* schedules one notification with the success flag of the response when the
\* webhook_url of the application is not empty, and none when it is empty.
C21_ResolvedCheckNotifiesOnce ==
    (CheckDone /\ last.code \notin {"required-fields", "database-error"}
        /\ last.req.app_id \in Apps) =>
        last.hook = IF EmptyUrl(AppBefore.webhook_url) THEN "none"
                    ELSE IF last.success THEN "success" ELSE "failure"

\* -------------------------------------------------------------------- C22
\* C22: the process keeps running whatever becomes of a dispatch, and a
\* dispatch changes neither the response of its check nor the licenses and
\* usage rows.
C22_DispatchFailureOnlyLogged ==
    /\ [](server = Running)
    /\ [][ last'.op = "dispatch" =>
              /\ licenses' = licenses
              /\ usage' = usage
              /\ last'.status = last.status
              /\ last'.success = last.success
              /\ last'.reason = last.reason ]_vars

\* -------------------------------------------------------------------- C23
\* no refresh-app-id request is between its lookup and its answer
NoRefreshUnderWay == \A r \in Refreshers : rotation.requests[r].pc \in {"idle", "answered"}

\* C23: once every refresh-app-id request has answered, the application row,
\* its licenses and its user_app_access rows carry the same app_id.
C23_RotationAllOrNothing ==
    NoRefreshUnderWay =>
        /\ rotation.applications = rotation.licenses
        /\ rotation.licenses = rotation.user_app_access

\* -------------------------------------------------------------------- C24
\* min(max(q, 1), 100)
Clamped(q) == IF q < 1 THEN 1 ELSE IF q > 100 THEN 100 ELSE q

\* the rows of the table that a session created
CreatedBy(g) == {i \in 1..Len(generation.table) : generation.table[i].row.created_by = g}

\* C24: a generate request of quantity q that answered with success created
\* min(max(q, 1), 100) licenses; every stored license was inserted not yet
\* activated, not bound, not banned and not paused; and no two stored
\* licenses share a key, in every state of interleaved generate requests.
C24_GenerateCreatesUniqueKeys ==
    /\ \A q \in Quantities \cup {-5, 100, 250} : NumLicenses(q) = Clamped(q)
    /\ \A g \in Generators :
          generation.requests[g].status = 200 =>
              /\ Len(generation.requests[g].licenseKeys) = Clamped(generation.requests[g].body.quantity)
              /\ Cardinality(CreatedBy(g)) = Clamped(generation.requests[g].body.quantity)
              /\ \A n \in 1..Len(generation.requests[g].licenseKeys) :
                    \E i \in CreatedBy(g) :
                        generation.table[i].license_key = generation.requests[g].licenseKeys[n]
    /\ \A i, j \in 1..Len(generation.table) :
          generation.table[i].license_key = generation.table[j].license_key => i = j
    /\ \A i \in 1..Len(generation.table) :
          /\ generation.table[i].row.expires_at = NoTime
          /\ generation.table[i].row.locked_hwid = NULL
          /\ generation.table[i].row.is_banned = 0
          /\ generation.table[i].row.is_paused = 0

\* a request for two licenses has succeeded, having retried a key that was
\* taken, while the INSERT of the other session was refused for its key
C24_Witness ==
    /\ generation.requests["u1"].status = 200
    /\ generation.requests["u1"].body.quantity = 2
    /\ Cardinality(CreatedBy("u1")) = 2
    /\ generation.requests["u2"].status = 500
    /\ ~generation.requests["u2"].existing
    /\ generation.requests["u2"].licenseKey \in StoredKeys(generation.table)

\* -------------------------------------------------------------------- C25
Range(s) == {s[i] : i \in 1..Len(s)}

\* the characters the options allow at a wildcard
ConfiguredSet(options) ==
    Range(Lowercase)
    \cup (IF options.bigLetters THEN Range(Uppercase) ELSE {})
    \cup (IF options.digits THEN Range(Digits) ELSE {})
    \cup (IF options.specialChars THEN Range(SpecialChars) ELSE {})

SecondsOf(unit) ==
    IF unit = "seconds" THEN 1
    ELSE IF unit = "minutes" THEN 60
    ELSE IF unit = "hours" THEN 3600
    ELSE 86400

\* C26: calculateExpirationDate returns null for an unlimited license and
\* otherwise the instant now + value in the unit.
C26_ExpirationIsNowPlusDuration ==
    (call.fn = "calculateExpirationDate" /\ call.done) =>
        call.result = IF call.isUnlimited THEN NoTime
                      ELSE call.now + call.durationValue * SecondsOf(call.durationUnit)

\* -------------------------------------------------------------------- C27
\* the message of a reason code for an owner: the owner's row if it holds a
\* text, else the row of no user if it holds a text, else the default text
LookedUp(owner, key) ==
    IF owner \in MessageUsers /\ owner # NULL /\ ~Falsy(messages[owner][key])
    THEN messages[owner][key]
    ELSE IF ~Falsy(messages[NULL][key]) THEN messages[NULL][key]
    ELSE DefaultMessage(key)

\* C27: the reason of every rejection of a check that resolved its license is
\* the looked-up message of a reason code, for the owner of the license.
C27_ReasonsComeFromLookup ==
    (CheckDone /\ ~last.success /\ last.code # "database-error" /\ Resolved) =>
        /\ last.code \in MessageKeys
        /\ last.reason = LookedUp(IF ~Falsy(Before.created_by) THEN Before.created_by
                                  ELSE AppBefore.created_by, last.code)

\* -------------------------------------------------------------------- C28
\* C28: a check whose lookup failed answers with a failure whose reason is the
\* database-error message of no user (the stored row or the default text) and
\* not the text of the storage error, schedules no notification, and leaves
\* the licenses and the usage rows as they were.
C28_LookupErrorIsGeneric ==
    [][ (last'.op = "check" /\ last'.code = "database-error") =>
           /\ ~last'.success
           /\ last'.status = 500
           /\ last'.reason = IF ~Falsy(messages[NULL]["database-error"])
                             THEN messages[NULL]["database-error"] ELSE "Database error"
           /\ last'.reason # StorageErrorText
           /\ last'.hook = "none"
           /\ licenses' = licenses
           /\ usage' = usage ]_vars

\* the lookup of a check of an activated license has failed on an installation
\* that carries a database-error message of no user
C28_Witness ==
    /\ last.op = "check"
    /\ last.code = "database-error"
    /\ last.reason = "Legacy text"
    /\ licenses["K1"].expires_at # NoTime
    /\ usage["K1"].rows = 1

\* -------------------------------------------------------------------- C29
\* the check just answered reached the hardware policy of an application with
\* the lock enabled, for an activated license without locked_hwid, and carried
\* a hwid
LateBinding ==
    /\ CheckDone
    /\ ReachesHardwarePolicy
    /\ LockWasEnabled
    /\ Activated(Before)
    /\ Falsy(Before.locked_hwid)
    /\ ~Falsy(last.req.hwid)

\* C29: such a check is not rejected for the hardware and leaves locked_hwid
\* at its hwid, and a check of the license with another hwid that follows it
\* and reaches the hardware policy with the lock enabled is rejected as a
\* mismatch.
C29_LateBindingLocks ==
    /\ [](LateBinding =>
             /\ last.code \notin {"hwid-required", "hwid-mismatch"}
             /\ After.locked_hwid = last.req.hwid)
    /\ [][ (LateBinding /\ CheckDone' /\ ReachesHardwarePolicy' /\ LockWasEnabled'
               /\ last'.req.license_key = last.req.license_key
               /\ last'.req.hwid # last.req.hwid) =>
              last'.code = "hwid-mismatch" ]_vars

\* an accepted check has bound H1 to a license whose lock the owner had reset
C29_Witness ==
    /\ LateBinding
    /\ last.success
    /\ last.req.hwid = "H1"
    /\ licenses["K1"].locked_hwid = "H1"
    /\ usage["K1"].rows = 1

\* -------------------------------------------------------------------- C30
\* the payload of the accepted check just answered
Payload == ResponseData(last.req, Before, AppBefore, now)

\* C30: an accepted check returns is_activated = true; for a duration license
\* expires_at is the expiry the row now holds and days_remaining the least
\* whole number of days that covers expires_at - now, which is not negative;
\* for an unlimited license is_unlimited is true and expires_at and
\* days_remaining are null.
C30_AcceptedPayload ==
    (CheckDone /\ last.success) =>
        /\ Payload.is_activated
        /\ Before.is_unlimited = 0 =>
              /\ ~Payload.is_unlimited
              /\ Payload.expires_at # NoTime
              /\ Payload.expires_at = After.expires_at
              /\ \E n \in 0..((After.expires_at - now) \div 86400 + 1) :
                    /\ Payload.days_remaining = {n}
                    /\ n * 86400 >= After.expires_at - now
                    /\ n = 0 \/ (n - 1) * 86400 < After.expires_at - now
        /\ Before.is_unlimited = 1 =>
              /\ Payload.is_unlimited
              /\ Payload.expires_at = NoTime
              /\ Payload.days_remaining = {}

\* an accepted check of a license that expires in a day and a second answers
\* two days
C30_Witness ==
    /\ CheckDone
    /\ last.success
    /\ After.expires_at = now + 86401
    /\ Payload.days_remaining = {2}

\* -------------------------------------------------------------------- C31
\* C31: an accepted pause of all licenses of an application leaves every
\* license of that application as a single pause request for that license,
\* sent at the same instant by a session that sees every license, would leave
\* it: paused if the single request would be accepted, untouched if it would
\* be refused.
C31_BulkPauseAsSinglePause ==
    [][ (last'.op = "pause-all" /\ last'.status = 200) =>
          \A k \in Keys :
              licenses[k].app_id = last'.req.app_id =>
                  licenses'[k] = PauseLicense(Admin, k, now).table[k] ]_vars

\* -------------------------------------------------------------------- C32
\* C32: while the hardware lock of the application is enabled, a check that
\* is accepted for a license for which a check has been accepted since the
\* last reset of its hardware lock (the usage cache holds the hwid of that
\* check; the reset empties it) carries the hwid of that earlier check.
C32_OneHwidUntilReset ==
    [][ \A p \in Clients :
          ( /\ inflight[p].pc = "found"
            /\ inflight'[p].pc # "found"
            /\ inflight'[p].accepted
            /\ usage[inflight[p].req.license_key].rows > 0 )
          => inflight[p].req.hwid = usage[inflight[p].req.license_key].hwid ]_vars

\* -------------------------------------------------------------------- C33
\* C33: when a license that was activated when it was paused is resumed, its
\* new expires_at is the expires_at it holds at the resume, which is the
\* expiry E of the pause plus every extension d applied since, plus the time
\* that has passed since the pause.
C33_ExtensionSurvivesPause ==
    [][ \A k \in Keys :
          ( /\ licenses[k].is_paused = 1
            /\ licenses'[k].is_paused = 0
            /\ licenses[k].paused_expires_at # NoTime
            /\ licenses[k].paused_at # NoTime )
          => licenses'[k].expires_at =
                licenses[k].expires_at + (now - licenses[k].paused_at) ]_vars

\* -------------------------------------------------------------------- C34
\* C34: no step takes the expires_at of a license from a value back to NULL.
C34_ActivationIrreversible ==
    [][ \A k \in Keys :
          licenses[k].expires_at # NoTime => licenses'[k].expires_at # NoTime ]_vars

\* -------------------------------------------------------------------- C35
\* the extension an extend request adds to the expiry it read
Extension(c) == c.row.expires_at - c.read.expires_at

\* C35: when two accepted extend requests for an activated license have both
\* been answered, its expires_at is the expiry E before the two requests (the
\* earlier of the two expiries they read) plus the extensions of both.
C35_ExtendsCompose ==
    ( \A w \in Writers :
         /\ pending[w].pc = "done"
         /\ pending[w].op \in {"extend", "admin-extend"}
         /\ pending[w].status = 200
         /\ pending[w].read.expires_at # NoTime )
    => \A k \in Keys :
          LET E == IF pending["w1"].read.expires_at < pending["w2"].read.expires_at
                   THEN pending["w1"].read.expires_at ELSE pending["w2"].read.expires_at
          IN  licenses[k].expires_at = E + Extension(pending["w1"]) + Extension(pending["w2"])

\* -------------------------------------------------------------------- C36
\* C36: in every state a paused license has its paused_at set, and a license
\* that is not paused has paused_at and paused_expires_at NULL; each pause
\* and each resume is one step, so no state lies between the writes of the
\* three fields.
C36_PauseBookkeeping ==
    \A k \in Keys :
        /\ licenses[k].is_paused = 1 => licenses[k].paused_at # NoTime
        /\ licenses[k].is_paused = 0 =>
               /\ licenses[k].paused_at = NoTime
               /\ licenses[k].paused_expires_at = NoTime

\* an activated license was paused, time passed, and it has just been resumed
C36_Witness ==
    /\ last.op = "unpause"
    /\ last.status = 200
    /\ last.pre["K1"].is_paused = 1
    /\ last.pre["K1"].paused_expires_at # NoTime
    /\ last.pre["K1"].paused_at < now
    /\ licenses["K1"].is_paused = 0

\* -------------------------------------------------------------------- C37
\* C37: a request that changes licenses and is sent by a session of a user
\* who is not the admin leaves every license created by another user as it
\* was.
C37_OthersLicensesUntouched ==
    ( /\ last.op \notin {"idle", "check", "dispatch"}
      /\ last.req.user # ABSENT
      /\ ~isAdminUser(last.req.user) )
    => \A k \in Keys :
          last.pre[k].created_by # last.req.user => licenses[k] = last.pre[k]

ResetDone ==
    /\ last.op = "reset-hwid"
    /\ last.status = 200
    /\ last.req.license_key \in Keys

\* C39: an accepted reset leaves the license as it was except for locked_hwid,
\* which is NULL, and leaves no usage row of its key; and the check of the
\* license that follows it, with a hwid, on an application with the lock
\* enabled, if it reaches the hardware policy and the license is not one
\* without a usable duration, is not rejected for the hardware and leaves
\* locked_hwid at its hwid.
C39_ResetThenBind ==
    /\ [](ResetDone =>
             /\ licenses[last.req.license_key] =
                   [last.pre[last.req.license_key] EXCEPT !.locked_hwid = NULL]
             /\ usage[last.req.license_key] = NoUsage)
    /\ [][ ( /\ ResetDone
              /\ CheckDone' /\ ReachesHardwarePolicy' /\ LockWasEnabled'
              /\ last'.req.license_key = last.req.license_key
              /\ ~BlankHwid(last'.req.hwid)
              /\ last'.code # "configuration-error" )
            => /\ last'.code \notin {"hwid-required", "hwid-mismatch"}
               /\ licenses'[last.req.license_key].locked_hwid = last'.req.hwid ]_vars

\* a check from H2 of an activated license whose hardware lock had been
\* reset has been accepted at a later instant and has bound the license to
\* H2; the usage cache holds that check alone
C39_Witness ==
    /\ CheckDone
    /\ last.success
    /\ last.req.hwid = "H2"
    /\ Activated(Before)
    /\ Falsy(Before.locked_hwid)
    /\ licenses["K1"].locked_hwid = "H2"
    /\ usage["K1"] = RecordUsage(NoUsage, "H2", now)
    /\ now > 0

\* -------------------------------------------------------------------- C40
\* a generate request that has passed the validation and has not answered
UnderWay(g) == generation.requests[g].pc \in {"generate", "selected"}

\* C40: every generate request under way answers; a key that exists is
\* replaced until the attempts for one license reach maxAttempts, and the
\* request then answers with an error; a request that has answered sends
\* no other answer and inserts no other license; and no stored license
\* leaves the table, so those inserted before an error stay, one per
\* license counted by the request.
C40_GenerateTerminates ==
    /\ \A g \in Generators : UnderWay(g) ~> (generation.requests[g].pc = "answered")
    /\ [](\A g \in Generators :
             /\ generation.requests[g].attempts <= MaxAttempts
             /\ UnderWay(g) => generation.requests[g].attempts < MaxAttempts
             /\ generation.requests[g].attempts = MaxAttempts =>
                    generation.requests[g].status = 500
             /\ generation.requests[g].pc = "answered" <=> generation.requests[g].status # 0
             /\ Cardinality(CreatedBy(g)) = generation.requests[g].insertedCount)
    /\ [][ /\ \A g \in Generators :
                 generation.requests[g].status # 0 =>
                     /\ generation'.requests[g] = generation.requests[g]
                     /\ CreatedBy(g)' = CreatedBy(g)
           /\ SubSeq(generation'.table, 1, Len(generation.table)) = generation.table ]_vars

\* a request for two licenses has stored the first one and has answered with
\* an error after maxAttempts keys that exist; the stored license is in the
\* table
C40_Witness ==
    /\ generation.requests["u1"].status = 500
    /\ generation.requests["u1"].attempts = MaxAttempts
    /\ generation.requests["u1"].body.quantity = 2
    /\ generation.requests["u1"].insertedCount = 1
    /\ \E i \in CreatedBy("u1") :
          generation.table[i].license_key = generation.requests["u1"].licenseKeys[1]

====
